---- MODULE Spec2Model ----
(***************************************************************************)
(* Directional focus navigation of py_curses_tui: the geometric distance   *)
(* of Drawable.distance, the widgets (KeyCaptureDrawable), the groups      *)
(* (Submenu) and the container (Menu), with the goto / take / remove       *)
(* hand-off between them.                                                  *)
(*                                                                         *)
(* Points are <<y, x>> as in the source (row first).  Python list indices  *)
(* are kept 0-based in the state (Submenu._selected, Menu.selected_submenu)*)
(* and translated to the 1-based sequences by At/PyIndexOk.                *)
(***************************************************************************)
EXTENDS Integers, Sequences, FiniteSets, TLC

VARIABLES
    submenus,          \* Menu._submenus: sequence of Submenu records
    selected_submenu,  \* Menu.selected_submenu
    first_draw,        \* Menu._first_draw
    lastPress,         \* the last key press delivered and what it did (history)
    err,               \* exception raised by the last operation, or "none"
    dO, dP, dDir,      \* arguments of a direct call of Drawable.distance
    dRes,              \* its result
    dPc,               \* "call" before the call, "done" after it
    standalone,        \* a Submenu that is in no Menu (built by its own add calls)
    ui,                \* the UserInterface around the Menu: loop flags, menus_top, last key
    il,                \* an ItemListSubmenu: its members, items, limit and selected index
    th,                \* the main loop and a background thread inside Menu.draw
    anim               \* an AnimatedText: _running and the threads start() created

menuVars == <<submenus, selected_submenu, first_draw, lastPress, err>>
distVars == <<dO, dP, dDir, dRes, dPc>>
aloneVars == <<standalone>>
uiVars == <<ui>>
extraVars == <<il, th, anim>>
vars == <<submenus, selected_submenu, first_draw, lastPress, err,
          dO, dP, dDir, dRes, dPc, standalone, ui, il, th, anim>>

(***************************************************************************)
(* Constants of the program                                                *)
(***************************************************************************)
MAX_DELTA == 256

\* What an operator yields when the code raises ValueError instead of returning
\* a number (every number the code returns is >= 0).
ValueError == -1

Directions == 0 .. 3          \* 0: down, 1: right, 2: up, 3: left

(***************************************************************************)
(* Bounds of the model                                                     *)
(***************************************************************************)
GridLow == 2       \* sampled coordinates 0 .. GridLow
GridHigh == 1      \* and MAX_DELTA-1-GridHigh .. MAX_DELTA-1
BadDirs == 1       \* invalid directions tried: 4 .. 3+BadDirs, and -1
MaxSubmenus == 2   \* groups of the Menu

Coords == (0 .. GridLow) \cup ((MAX_DELTA - 1 - GridHigh) .. (MAX_DELTA - 1))
Grid == Coords \X Coords
InvalidDirections == {-1} \cup (4 .. (3 + BadDirs))

\* F(v), with v evaluated once (a local variable of the code).
Let(v, F(_)) == CHOOSE r \in {F(x) : x \in {v}} : TRUE

(***************************************************************************)
(* Drawable.distance                                                       *)
(* Each zone is [sup, off]: the supplement `sup` the code assigns to the   *)
(* zone and the offset it adds to it; the code returns sup + off.          *)
(***************************************************************************)
\* zone_down with zone 1 tested as dy >= 0 instead of dy > 0.
zone_down_ge(y1, x1, y2, x2) ==
    LET dx == x2 - x1
        dy == y2 - y1
    IN  IF dy >= 0 /\ dx >= 0 THEN
            [sup |-> 0,
             off |-> dy + dx * (MAX_DELTA - y1 - 1)]
        ELSE IF dy > 0 /\ dx < 0 THEN
            [sup |-> MAX_DELTA * MAX_DELTA,
             off |-> (MAX_DELTA - y1 - 1) * (MAX_DELTA - x1) + (dy - 1) * x1 + x2 + 1]
        ELSE IF dy <= 0 /\ dx > 0 THEN
            [sup |-> 2 * MAX_DELTA * MAX_DELTA,
             off |-> (MAX_DELTA - y1 - 1) * MAX_DELTA + (dx - 1) * (y1 + 1) + y2 + 1]
        ELSE
            [sup |-> 3 * MAX_DELTA * MAX_DELTA,
             off |-> (MAX_DELTA - y1 - 1) * MAX_DELTA
                     + (y1 + 1) * (MAX_DELTA - x1 - 1) + x2 * (y1 + 1) + y2 + 1]

\* zone_down with the offset of zone 1 falling with dy (the farther the lower).
zone_down_far(y1, x1, y2, x2) ==
    LET dx == x2 - x1
        dy == y2 - y1
    IN  IF dy > 0 /\ dx >= 0 THEN
            [sup |-> 0,
             off |-> (MAX_DELTA - dy) + dx * (MAX_DELTA - y1 - 1)]
        ELSE IF dy > 0 /\ dx < 0 THEN
            [sup |-> MAX_DELTA * MAX_DELTA,
             off |-> (MAX_DELTA - y1 - 1) * (MAX_DELTA - x1) + (dy - 1) * x1 + x2 + 1]
        ELSE IF dy <= 0 /\ dx > 0 THEN
            [sup |-> 2 * MAX_DELTA * MAX_DELTA,
             off |-> (MAX_DELTA - y1 - 1) * MAX_DELTA + (dx - 1) * (y1 + 1) + y2 + 1]
        ELSE
            [sup |-> 3 * MAX_DELTA * MAX_DELTA,
             off |-> (MAX_DELTA - y1 - 1) * MAX_DELTA
                     + (y1 + 1) * (MAX_DELTA - x1 - 1) + x2 * (y1 + 1) + y2 + 1]

zone_down(y1, x1, y2, x2) ==
    LET dx == x2 - x1
        dy == y2 - y1
    IN  IF dy > 0 /\ dx >= 0 THEN
            [sup |-> 0,
             off |-> dy + dx * (MAX_DELTA - y1 - 1)]
        ELSE IF dy > 0 /\ dx < 0 THEN
            [sup |-> MAX_DELTA * MAX_DELTA,
             off |-> (MAX_DELTA - y1 - 1) * (MAX_DELTA - x1) + (dy - 1) * x1 + x2 + 1]
        ELSE IF dy <= 0 /\ dx > 0 THEN
            [sup |-> 2 * MAX_DELTA * MAX_DELTA,
             off |-> (MAX_DELTA - y1 - 1) * MAX_DELTA + (dx - 1) * (y1 + 1) + y2 + 1]
        ELSE
            [sup |-> 3 * MAX_DELTA * MAX_DELTA,
             off |-> (MAX_DELTA - y1 - 1) * MAX_DELTA
                     + (y1 + 1) * (MAX_DELTA - x1 - 1) + x2 * (y1 + 1) + y2 + 1]

zone_right(y1, x1, y2, x2) ==
    LET dx == x2 - x1
        dy == y2 - y1
    IN  IF dx > 0 /\ dy = 0 THEN
            [sup |-> 0, off |-> dx]
        ELSE IF dx > 0 /\ dy < 0 THEN
            [sup |-> MAX_DELTA * MAX_DELTA,
             off |-> (y1 - y2) + (dx - 1) * y1]
        ELSE IF dx > 0 /\ dy > 0 THEN
            [sup |-> 2 * MAX_DELTA * MAX_DELTA,
             off |-> dy + (dx - 1) * (MAX_DELTA - y1 - 1)]
        ELSE IF dx = 0 /\ dy > 0 THEN
            [sup |-> 3 * MAX_DELTA * MAX_DELTA, off |-> dy]
        ELSE
            [sup |-> 4 * MAX_DELTA * MAX_DELTA, off |-> y2 + x2 * MAX_DELTA]

zone_up(y1, x1, y2, x2) ==
    LET dx == x2 - x1
        dy == y2 - y1
    IN  IF dy < 0 /\ dx <= 0 THEN
            [sup |-> 0,
             off |-> y1 * (x1 - x2) + y1 - y2]
        ELSE IF dy < 0 /\ dx > 0 THEN
            [sup |-> MAX_DELTA * MAX_DELTA,
             off |-> y1 * (x1 + 1) + (dx - 1) * y1 + y1 - y2]
        ELSE IF dy = 0 /\ dx < 0 THEN
            [sup |-> 2 * MAX_DELTA * MAX_DELTA,
             off |-> y1 * MAX_DELTA + (x1 - x2)]
        ELSE IF dy > 0 /\ dx < 0 THEN
            [sup |-> 2 * MAX_DELTA * MAX_DELTA,
             off |-> (y1 * MAX_DELTA + x1) + x1 * (MAX_DELTA - y2 - 1) + x1 - x2]
        ELSE
            [sup |-> 3 * MAX_DELTA * MAX_DELTA,
             off |-> (y1 * MAX_DELTA + (MAX_DELTA - y1) * x1)
                     + (MAX_DELTA - x1) * (MAX_DELTA - y2 - 1) + MAX_DELTA - x2]

\* zone_left with zone 5 counting MAX_DELTA - x1 columns instead of MAX_DELTA - x1 - 1.
zone_left_offbyone(y1, x1, y2, x2) ==
    LET dx == x2 - x1
        dy == y2 - y1
    IN  IF dx < 0 /\ dy = 0 THEN
            [sup |-> 0, off |-> x1 - x2]
        ELSE IF dx < 0 /\ dy < 0 THEN
            [sup |-> MAX_DELTA * MAX_DELTA,
             off |-> (y1 - y2) + y1 * (x1 - x2 - 1)]
        ELSE IF dx < 0 /\ dy > 0 THEN
            [sup |-> 2 * MAX_DELTA * MAX_DELTA,
             off |-> (MAX_DELTA - y2 - 1) + (x1 - x2 - 1) * (MAX_DELTA - y1 - 1)]
        ELSE IF dx = 0 /\ dy < 0 THEN
            [sup |-> 3 * MAX_DELTA * MAX_DELTA, off |-> y1 - y2]
        ELSE
            [sup |-> 4 * MAX_DELTA * MAX_DELTA,
             off |-> y2 + (MAX_DELTA - x1) * MAX_DELTA]

zone_left(y1, x1, y2, x2) ==
    LET dx == x2 - x1
        dy == y2 - y1
    IN  IF dx < 0 /\ dy = 0 THEN
            [sup |-> 0, off |-> x1 - x2]
        ELSE IF dx < 0 /\ dy < 0 THEN
            [sup |-> MAX_DELTA * MAX_DELTA,
             off |-> (y1 - y2) + y1 * (x1 - x2 - 1)]
        ELSE IF dx < 0 /\ dy > 0 THEN
            [sup |-> 2 * MAX_DELTA * MAX_DELTA,
             off |-> (MAX_DELTA - y2 - 1) + (x1 - x2 - 1) * (MAX_DELTA - y1 - 1)]
        ELSE IF dx = 0 /\ dy < 0 THEN
            [sup |-> 3 * MAX_DELTA * MAX_DELTA, off |-> y1 - y2]
        ELSE
            [sup |-> 4 * MAX_DELTA * MAX_DELTA,
             off |-> y2 + (MAX_DELTA - x1 - 1) * MAX_DELTA]

\* The zone of p seen from origin, for a valid direction.
zone(origin, p, direction) ==
    IF direction = 0 THEN zone_down(origin[1], origin[2], p[1], p[2])
    ELSE IF direction = 1 THEN zone_right(origin[1], origin[2], p[1], p[2])
    ELSE IF direction = 2 THEN zone_up(origin[1], origin[2], p[1], p[2])
    ELSE zone_left(origin[1], origin[2], p[1], p[2])

\* Drawable.distance(origin, p, direction): the equal-points test comes first,
\* before the direction is looked at.
distance(origin, p, direction) ==
    IF origin[2] = p[2] /\ origin[1] = p[1] THEN MAX_DELTA * MAX_DELTA
    ELSE IF direction \in Directions
         THEN Let(zone(origin, p, direction), LAMBDA z : z.sup + z.off)
         ELSE ValueError

(***************************************************************************)
(* Python helpers: list indexing and min()                                 *)
(***************************************************************************)
\* seq[i] of a Python list does not raise IndexError.
PyIndexOk(seq, i) == -Len(seq) <= i /\ i < Len(seq)

\* Position in the 1-based sequence of the element seq[i] of the Python list.
PyPos(seq, i) == IF i >= 0 THEN i + 1 ELSE Len(seq) + i + 1

\* min(range(n), key=...) returning the last index among those with the least
\* key instead of the first.
py_min_index_last(keys) ==
    (CHOOSE i \in 1 .. Len(keys) :
        \A j \in 1 .. Len(keys) :
            keys[i] < keys[j] \/ (keys[i] = keys[j] /\ i >= j)) - 1

\* min(range(len(keys)), key=...): the first index (0-based) of a minimal key.
py_min_index(keys) ==
    (CHOOSE i \in 1 .. Len(keys) :
        \A j \in 1 .. Len(keys) :
            keys[i] < keys[j] \/ (keys[i] = keys[j] /\ i <= j)) - 1

\* min(...) of a non-empty collection of numbers.
py_min(S) == CHOOSE x \in S : \A y \in S : x <= y

(***************************************************************************)
(* Hitbox                                                                  *)
(***************************************************************************)
Hitbox(tl, br) == [tl |-> tl, br |-> br]

get_tr(hitbox) == <<hitbox.tl[1], hitbox.br[2]>>
get_bl(hitbox) == <<hitbox.br[1], hitbox.tl[2]>>

is_inside(hitbox, p) ==
    /\ hitbox.tl[1] <= p[1] /\ p[1] <= hitbox.br[1]
    /\ hitbox.tl[2] <= p[2] /\ p[2] <= hitbox.br[2]

\* The cells of a hitbox a widget passes as origin: its corners (Button passes
\* tl or br) and its centre.
OriginPoints(hitbox) ==
    {hitbox.tl, get_tr(hitbox), hitbox.br, get_bl(hitbox),
     <<(hitbox.tl[1] + hitbox.br[1]) \div 2, (hitbox.tl[2] + hitbox.br[2]) \div 2>>}

(***************************************************************************)
(* The widgets.  A widget is identified by its place in Catalogue, which   *)
(* gives its hitbox; a member of a group is [w, focus], focus being the    *)
(* widget's most recent capture_take / capture_remove call (Button keeps   *)
(* it as _selected).                                                       *)
(***************************************************************************)
Catalogue ==
    << Hitbox(<<0, 0>>, <<0, 9>>),
       Hitbox(<<0, 20>>, <<0, 29>>),
       Hitbox(<<5, 0>>, <<5, 9>>),
       Hitbox(<<10, 0>>, <<10, 9>>),
       Hitbox(<<-1, -1>>, <<1, 10>>),
       Hitbox(<<5, 20>>, <<5, 19>>) >>

\* Every widget of the catalogue.  The last but one is a widget at (0, 0)
\* whose hitbox was overwritten (overwrite_hitbox, relative) with a margin of
\* one cell; the last one is a widget whose hitbox was overwritten with the
\* inverted box (5, 20)-(5, 19) (a width of zero cells).
AllWidgets == 1 .. Len(Catalogue)

\* The widgets the Menus are built from: those whose hitbox is on the screen
\* and holds a cell.
Widgets == {w \in AllWidgets :
               /\ Catalogue[w].tl[1] >= 0 /\ Catalogue[w].tl[2] >= 0
               /\ Catalogue[w].br[1] >= Catalogue[w].tl[1]
               /\ Catalogue[w].br[2] >= Catalogue[w].tl[2]}

get_hitbox(w) == Catalogue[w]

\* KeyCaptureDrawable.__init__: no goto yet, neither take nor remove called.
NewKcd(w) == [w |-> w, focus |-> "none", capture_goto |-> "None"]
kcd_capture_take(kcd) == [kcd EXCEPT !.focus = "take"]
kcd_capture_remove(kcd) == [kcd EXCEPT !.focus = "remove"]

\* KeyCaptureDrawable.distance_from
kcd_distance_from(w, p, direction) ==
    LET hitbox == get_hitbox(w)
        dist_tl == distance(p, hitbox.tl, direction)
        dist_tr == distance(p, get_tr(hitbox), direction)
        dist_br == distance(p, hitbox.br, direction)
        dist_bl == distance(p, get_bl(hitbox), direction)
        ds == {dist_tl, dist_tr, dist_br, dist_bl}
    IN  IF is_inside(hitbox, p) THEN MAX_DELTA * MAX_DELTA * MAX_DELTA
        ELSE IF ValueError \in ds THEN ValueError
        ELSE py_min(ds)

(***************************************************************************)
(* Submenu                                                                 *)
(***************************************************************************)
\* Submenu.__init__
NewSubmenu ==
    [kcds |-> << >>, tl |-> <<-1, -1>>, br |-> <<-1, -1>>, selected |-> 0,
     capture_goto |-> "None"]

\* Submenu.add
submenu_add(s, w) ==
    LET kcd_tl == get_hitbox(w).tl
        kcd_br == get_hitbox(w).br
        tl0 == IF s.tl = <<-1, -1>> THEN kcd_tl ELSE s.tl
        br0 == IF s.tl = <<-1, -1>> THEN kcd_br ELSE s.br
        tl1 == IF kcd_tl[1] < tl0[1] THEN <<kcd_tl[1], tl0[2]>> ELSE tl0
        tl2 == IF kcd_tl[2] < tl1[2] THEN <<tl1[1], kcd_tl[2]>> ELSE tl1
        br1 == IF kcd_br[1] > br0[1] THEN <<kcd_br[1], br0[2]>> ELSE br0
        br2 == IF kcd_br[2] > br1[2] THEN <<br1[1], kcd_br[2]>> ELSE br1
    IN  [s EXCEPT !.kcds = Append(s.kcds, [NewKcd(w) EXCEPT !.capture_goto = "handle_kcd_goto"]),
                  !.tl = tl2, !.br = br2]

\* Submenu.clear
submenu_clear(s) == [s EXCEPT !.kcds = << >>]

\* Submenu.activate leaving the members other than the selected one alone.
activate_noremove(s, index) ==
    [s EXCEPT !.selected = index,
              !.kcds = [i \in 1 .. Len(s.kcds) |->
                            IF i - 1 = index THEN kcd_capture_take(s.kcds[i])
                            ELSE s.kcds[i]]]

\* The calls Submenu.activate makes, in order: one per member of the loop
\* over enumerate(self._kcds).
activate_calls(s, index) ==
    [i \in 1 .. Len(s.kcds) |->
        IF i - 1 = index
        THEN [member |-> i - 1, call |-> "capture_take", args |-> <<<<0, 0>>, 0>>]
        ELSE [member |-> i - 1, call |-> "capture_remove", args |-> <<0>>]]

\* Submenu.activate
activate(s, index) ==
    [s EXCEPT !.selected = index,
              !.kcds = [i \in 1 .. Len(s.kcds) |->
                            IF i - 1 = index THEN kcd_capture_take(s.kcds[i])
                            ELSE kcd_capture_remove(s.kcds[i])]]

\* Submenu.distance_from computed from the members instead of the stored box
\* (min() of no member raises ValueError).
submenu_distance_from_members(s, p, direction) ==
    IF is_inside(Hitbox(s.tl, s.br), p) THEN 4 * MAX_DELTA * MAX_DELTA
    ELSE IF Len(s.kcds) = 0 THEN ValueError
    ELSE py_min({kcd_distance_from(s.kcds[j].w, p, direction) : j \in 1 .. Len(s.kcds)})

\* Submenu.distance_from
submenu_distance_from(s, p, direction) ==
    LET hitbox == Hitbox(s.tl, s.br)
        tl == hitbox.tl
        br == hitbox.br
        tr == get_tr(hitbox)
        bl == get_bl(hitbox)
        top == {distance(p, <<tl[1], i>>, direction) : i \in tl[2] .. tr[2]}
        bottom == {distance(p, <<br[1], i>>, direction) : i \in bl[2] .. br[2]}
        left == {distance(p, <<i, tl[2]>>, direction) : i \in tl[1] .. bl[1]}
        right == {distance(p, <<i, tr[2]>>, direction) : i \in tr[1] .. br[1]}
    IN  IF is_inside(hitbox, p) THEN 4 * MAX_DELTA * MAX_DELTA
        ELSE IF \/ top = {} \/ bottom = {} \/ left = {} \/ right = {}
                \/ ValueError \in (top \cup bottom \cup left \cup right)
             THEN ValueError
        ELSE py_min(top \cup bottom \cup left \cup right)

\* _distance_first_point_to_point measuring how far p is from origin (absolute
\* differences) instead of where p lies.
distance_first_point_to_point_abs(origin, p, direction) ==
    LET dy == IF p[1] >= origin[1] THEN p[1] - origin[1] ELSE origin[1] - p[1]
        dx == IF p[2] >= origin[2] THEN p[2] - origin[2] ELSE origin[2] - p[2]
    IN  IF direction \in {0, 2} THEN dy * MAX_DELTA + dx + 1
        ELSE dx * MAX_DELTA + dy + 1

\* Submenu._distance_first_point_to_point
distance_first_point_to_point(origin, p, direction) ==
    LET dy == p[1] - origin[1]
        dx == p[2] - origin[2]
    IN  IF direction = 0 THEN dy * MAX_DELTA + dx + 1
        ELSE IF direction = 1 THEN dx * MAX_DELTA + dy + 1
        ELSE IF direction = 2 THEN (-dy) * MAX_DELTA - dx + 1
        ELSE (-dx) * MAX_DELTA + dy + 1

\* Submenu._distance_first_kcd (for a valid direction)
distance_first_kcd(w, origin, direction) ==
    LET hitbox == get_hitbox(w)
    IN  IF direction = 0 THEN distance_first_point_to_point(origin, hitbox.tl, direction)
        ELSE IF direction = 1 THEN distance_first_point_to_point(origin, hitbox.tl, direction)
        ELSE IF direction = 2 THEN distance_first_point_to_point(origin, hitbox.br, direction)
        ELSE distance_first_point_to_point(origin, get_tr(hitbox), direction)

\* Submenu.find_first: the index found, or ValueError (min() of no member, or
\* an invalid direction).
find_first(s, p, direction) ==
    IF Len(s.kcds) = 0 \/ direction \notin Directions THEN ValueError
    ELSE py_min_index([i \in 1 .. Len(s.kcds) |->
                           distance_first_kcd(s.kcds[i].w, p, direction)])

\* Submenu._capture_take: [s, err]
submenu_capture_take(s, origin, direction) ==
    LET id_ == find_first(s, origin, direction)
    IN  IF id_ = ValueError THEN [s |-> s, err |-> "ValueError"]
        ELSE [s |-> activate(s, id_), err |-> "none"]

\* Submenu._capture_remove: [s, err]
submenu_capture_remove(s, direction) ==
    IF ~PyIndexOk(s.kcds, s.selected) THEN [s |-> s, err |-> "IndexError"]
    ELSE [s |-> [s EXCEPT !.kcds[PyPos(s.kcds, s.selected)] = kcd_capture_remove(@),
                          !.selected = -1],
          err |-> "none"]

(***************************************************************************)
(* Menu.  The operations work on [submenus, selected_submenu] and yield    *)
(* that record extended with err (the exception raised, or "none") and     *)
(* what the call returned.                                                 *)
(***************************************************************************)
\* Menu.handle_submenu_goto: ret is "True", "False" or "None".
MenuResult(ss, se, e, r) == [submenus |-> ss, selected_submenu |-> se, err |-> e, ret |-> r]

\* The else branch of handle_submenu_goto: the group m is not the current one.
switch_submenu(subs, sel, m, origin, direction) ==
    Let(submenu_capture_remove(subs[PyPos(subs, sel)], direction), LAMBDA rem :
        IF rem.err # "none" THEN MenuResult(subs, sel, rem.err, "None")
        ELSE
          Let([subs EXCEPT ![PyPos(subs, sel)] = rem.s], LAMBDA subs1 :
          Let(submenu_capture_take(subs1[m + 1], origin, direction), LAMBDA tak :
              IF tak.err # "none" THEN MenuResult(subs1, m, tak.err, "None")
              ELSE MenuResult([subs1 EXCEPT ![m + 1] = tak.s], m, "none", "True"))))

\* closest_submenu_goto removing the capture of the current group before it
\* looks for the closest group.
closest_submenu_goto_removefirst(subs, sel, origin, direction) ==
    Let([i \in 1 .. Len(subs) |-> submenu_distance_from(subs[i], origin, direction)],
        LAMBDA keys :
          IF \E i \in 1 .. Len(subs) : keys[i] = ValueError
          THEN MenuResult(subs, sel, "ValueError", "None")
          ELSE Let(py_min_index(keys), LAMBDA m :
                   IF m = sel
                   THEN MenuResult([subs EXCEPT ![PyPos(subs, sel)] =
                                        submenu_capture_remove(@, direction).s],
                                   sel, "none", "False")
                   ELSE switch_submenu(subs, sel, m, origin, direction)))

\* One branch of handle_submenu_goto (the four are alike): the closest group
\* is found and, unless it is the current one, takes the focus.
closest_submenu_goto(subs, sel, origin, direction) ==
    Let([i \in 1 .. Len(subs) |-> submenu_distance_from(subs[i], origin, direction)],
        LAMBDA keys :
          IF \E i \in 1 .. Len(subs) : keys[i] = ValueError
          THEN MenuResult(subs, sel, "ValueError", "None")
          ELSE Let(py_min_index(keys), LAMBDA m :
                   IF m = sel THEN MenuResult(subs, sel, "none", "False")
                   ELSE switch_submenu(subs, sel, m, origin, direction)))

\* handle_submenu_goto without its branch for direction 2.
handle_submenu_goto_noup(subs, sel, origin, direction) ==
    IF ~PyIndexOk(subs, sel) THEN MenuResult(subs, sel, "IndexError", "None")
    ELSE IF direction \notin {0, 1, 3} THEN MenuResult(subs, sel, "none", "None")
    ELSE closest_submenu_goto(subs, sel, origin, direction)

handle_submenu_goto(subs, sel, origin, direction) ==
    IF ~PyIndexOk(subs, sel) THEN MenuResult(subs, sel, "IndexError", "None")
    ELSE IF direction \notin Directions THEN MenuResult(subs, sel, "none", "None")
    ELSE closest_submenu_goto(subs, sel, origin, direction)

\* LocalLimit with the limit of left/right used for every direction.
LocalLimit_wide(direction) == 4 * MAX_DELTA * MAX_DELTA

\* LocalLimit with only the first band kept local.
LocalLimit_one_band(direction) == MAX_DELTA * MAX_DELTA

\* The score below which handle_kcd_goto keeps the focus in the group.
LocalLimit(direction) ==
    IF direction = 0 \/ direction = 2 THEN 2 * MAX_DELTA * MAX_DELTA
    ELSE 4 * MAX_DELTA * MAX_DELTA

\* Submenu.handle_kcd_goto of the group at index g (0-based) of the menu.
\* handoff: "none" (the Menu was not called), "True" / "False" (what the Menu
\* returned), "raised" (the Menu raised).
GotoResult(ss, se, e, h) == [submenus |-> ss, selected_submenu |-> se, err |-> e, handoff |-> h]

\* reselect without the assignment self._selected = m.
reselect_noselect(subs, g, m) ==
    [subs EXCEPT ![g + 1].kcds[m + 1] = kcd_capture_take(@)]

\* self._selected = m; self._kcds[m].capture_take(origin, direction)
reselect(subs, g, m) ==
    [subs EXCEPT ![g + 1].selected = m,
                 ![g + 1].kcds[m + 1] = kcd_capture_take(@)]

\* goto_member without the fallback: when the Menu returns False the group
\* selects nothing.
goto_member_nofallback(subs, sel, g, m, dist, origin, direction) ==
    Let([subs EXCEPT ![g + 1].kcds[PyPos(subs[g + 1].kcds, subs[g + 1].selected)] =
                         kcd_capture_remove(@)],
        LAMBDA removed :
          IF dist < LocalLimit(direction)
          THEN GotoResult(reselect(removed, g, m), sel, "none", "none")
          ELSE IF subs[g + 1].capture_goto = "None"
          THEN GotoResult(removed, sel, "TypeError", "none")
          ELSE Let(handle_submenu_goto(removed, sel, origin, direction), LAMBDA menu :
                   IF menu.err # "none"
                   THEN GotoResult(menu.submenus, menu.selected_submenu, menu.err, "raised")
                   ELSE IF menu.ret = "True"
                   THEN GotoResult(menu.submenus, menu.selected_submenu, "none", "True")
                   ELSE GotoResult(menu.submenus, menu.selected_submenu, "none", "False")))

\* goto_member without the capture_remove on the current member before the
\* Menu is asked.
goto_member_noremove(subs, sel, g, m, dist, origin, direction) ==
    IF dist < LocalLimit(direction)
    THEN GotoResult(reselect([subs EXCEPT
                                  ![g + 1].kcds[PyPos(subs[g + 1].kcds, subs[g + 1].selected)] =
                                      kcd_capture_remove(@)], g, m),
                    sel, "none", "none")
    ELSE IF subs[g + 1].capture_goto = "None"
    THEN GotoResult(subs, sel, "TypeError", "none")
    ELSE Let(handle_submenu_goto(subs, sel, origin, direction), LAMBDA menu :
             IF menu.err # "none"
             THEN GotoResult(menu.submenus, menu.selected_submenu, menu.err, "raised")
             ELSE IF menu.ret = "True"
             THEN GotoResult(menu.submenus, menu.selected_submenu, "none", "True")
             ELSE GotoResult(reselect(menu.submenus, g, m), menu.selected_submenu,
                             "none", "False"))

\* The branches of handle_kcd_goto once the closest member m and its score are known.
goto_member(subs, sel, g, m, dist, origin, direction) ==
    Let([subs EXCEPT ![g + 1].kcds[PyPos(subs[g + 1].kcds, subs[g + 1].selected)] =
                         kcd_capture_remove(@)],
        LAMBDA removed :
          IF dist < LocalLimit(direction)
          THEN GotoResult(reselect(removed, g, m), sel, "none", "none")
          ELSE IF subs[g + 1].capture_goto = "None"
          THEN GotoResult(removed, sel, "TypeError", "none")
          ELSE Let(handle_submenu_goto(removed, sel, origin, direction), LAMBDA menu :
                   IF menu.err # "none"
                   THEN GotoResult(menu.submenus, menu.selected_submenu, menu.err, "raised")
                   ELSE IF menu.ret = "True"
                   THEN GotoResult(menu.submenus, menu.selected_submenu, "none", "True")
                   ELSE GotoResult(reselect(menu.submenus, g, m), menu.selected_submenu,
                                   "none", "False")))

handle_kcd_goto(subs, sel, g, origin, direction) ==
    Let(subs[g + 1], LAMBDA s :
        IF s.selected = -1 THEN GotoResult(subs, sel, "ValueError", "none")
        ELSE IF ~PyIndexOk(s.kcds, s.selected) THEN GotoResult(subs, sel, "IndexError", "none")
        ELSE
          Let([i \in 1 .. Len(s.kcds) |-> kcd_distance_from(s.kcds[i].w, origin, direction)],
              LAMBDA keys :
                IF \E i \in 1 .. Len(s.kcds) : keys[i] = ValueError
                THEN GotoResult(subs, sel, "ValueError", "none")
                ELSE IF direction \notin Directions
                THEN GotoResult(subs, sel, "none", "none")
                ELSE Let(py_min_index(keys), LAMBDA m :
                         goto_member(subs, sel, g, m, keys[m + 1], origin, direction))))

\* Menu.add_key_capture_drawable without the test that raises ValueError.
add_key_capture_drawable_lenient(subs, w, submenu) ==
    IF PyIndexOk(subs, submenu)
    THEN [submenus |-> [subs EXCEPT ![PyPos(subs, submenu)] = submenu_add(@, w)],
          err |-> "none"]
    ELSE [submenus |-> Append(subs, submenu_add([NewSubmenu EXCEPT
                                        !.capture_goto = "handle_submenu_goto"], w)),
          err |-> "none"]

\* Menu.add_key_capture_drawable
add_key_capture_drawable(subs, w, submenu) ==
    IF PyIndexOk(subs, submenu)
    THEN [submenus |-> [subs EXCEPT ![PyPos(subs, submenu)] = submenu_add(@, w)],
          err |-> "none"]
    ELSE LET new_submenu == [NewSubmenu EXCEPT !.capture_goto = "handle_submenu_goto"]
             appended == Append(subs, submenu_add(new_submenu, w))
         IN  [submenus |-> appended,
              err |-> IF submenu > Len(appended) - 1 THEN "ValueError" ELSE "none"]

\* Menu.set_submenu
set_submenu(subs, submenu, submenu_index) ==
    LET installed == [submenu EXCEPT !.capture_goto = "handle_submenu_goto"]
    IN  IF submenu_index < Len(subs)
        THEN [submenus |-> [subs EXCEPT ![PyPos(subs, submenu_index)] = installed],
              err |-> "none"]
        ELSE IF submenu_index = Len(subs)
        THEN [submenus |-> Append(subs, installed), err |-> "none"]
        ELSE [submenus |-> subs, err |-> "ValueError"]

\* Menu.select_key_capture_drawable leaving the other groups as they are.
select_key_capture_drawable_keep(subs, sel, submenu_index, index) ==
    [submenus |-> [i \in 1 .. Len(subs) |->
                       IF i - 1 = submenu_index THEN activate(subs[i], index)
                       ELSE subs[i]],
     selected_submenu |-> IF submenu_index \in 0 .. (Len(subs) - 1)
                          THEN submenu_index ELSE sel]

\* Menu.select_key_capture_drawable
select_key_capture_drawable(subs, sel, submenu_index, index) ==
    [submenus |-> [i \in 1 .. Len(subs) |->
                       IF i - 1 = submenu_index THEN activate(subs[i], index)
                       ELSE activate(subs[i], -1)],
     selected_submenu |-> IF submenu_index \in 0 .. (Len(subs) - 1)
                          THEN submenu_index ELSE sel]

\* Menu.clear(reset_first_draw): the groups are dropped (the drawables too,
\* which the model does not hold); selected_submenu is not assigned.
menu_clear(subs, sel, fd, reset_first_draw) ==
    [submenus |-> << >>,
     selected_submenu |-> sel,
     first_draw |-> IF reset_first_draw THEN FALSE ELSE fd]

\* The arguments Submenu.activate passes to the capture_take of the member it
\* selects: capture_take((0, 0), 0).
activate_take == [origin |-> <<0, 0>>, direction |-> 0]

\* The arguments of the capture_take call that gives a member the focus in
\* handle_kcd_goto(origin, direction), when the call ends with a focused
\* member: the group's own call capture_take(origin, direction), or, when
\* the Menu switched groups, that of Submenu._capture_take -> activate(id_).
take_call(subs, sel, g, origin, direction) ==
    Let(handle_kcd_goto(subs, sel, g, origin, direction), LAMBDA r :
        IF r.handoff = "True" THEN activate_take
        ELSE [origin |-> origin, direction |-> direction])

(***************************************************************************)
(* The Menu as a state machine                                             *)
(***************************************************************************)
NoPress == [kind |-> "none", dir |-> 0, from |-> <<0, 0>>, handoff |-> "none"]

\* Submenu.__init__ of the Submenu that is in no Menu.
AloneIdle == standalone = NewSubmenu

\* UserInterface.__init__: not running, nothing stacked on top; no widget has
\* its bypass_if_activated set (KeyCaptureDrawable.__init__).
NoKey == [key |-> "none", to |-> "none"]
NewUi == [running |-> FALSE, interrupted |-> FALSE, menus_top |-> << >>,
          capturing |-> {}, last |-> NoKey]
UiIdle == ui = NewUi

\* ItemListSubmenu.__init__(y, x, width, items, max_items): a Submenu (selected
\* index 0) that is then built from items.  A member is the Add button, or the
\* TextInput or the remove Button created by add_item for the item at
\* position `item` of _text_inputs / _remove_buttons; `items` holds the texts
\* of _text_inputs (the two lists grow and shrink together).
AddButton == [kind |-> "add", item |-> -1]
TextInputOf(i) == [kind |-> "text", item |-> i]
RemoveButtonOf(i) == [kind |-> "remove", item |-> i]

\* ItemListSubmenu.add_item(value)
il_add_item(s, value) ==
    LET i == Len(s.items)
        added == Append(Append(s.kcds, TextInputOf(i)), RemoveButtonOf(i))
        texts == Append(s.items, value)
    IN  [s EXCEPT !.kcds = IF s.max_items > 0 /\ Len(texts) >= s.max_items
                           THEN Tail(added) ELSE added,
                  !.items = texts,
                  !.selected = i * 2 + 1]

\* for item in items: self.add_item(item)
RECURSIVE il_add_items(_, _)
il_add_items(s, items) ==
    IF items = << >> THEN s
    ELSE il_add_items(il_add_item(s, Head(items)), Tail(items))

\* ItemListSubmenu._build(items)
il_build(s, items) ==
    LET NOT_SELECTED == s.selected < 0
        cleared == [s EXCEPT !.kcds = IF s.max_items > 0 /\ Len(items) < s.max_items
                                      THEN <<AddButton>> ELSE << >>,
                             !.items = << >>]
        built == il_add_items(cleared, items)
    IN  IF NOT_SELECTED THEN [built EXCEPT !.selected = -1] ELSE built

\* ItemListSubmenu.remove_item(index)
il_remove_item(s, index) ==
    LET left == [k \in 1 .. (Len(s.items) - 1) |->
                     IF k <= index THEN s.items[k] ELSE s.items[k + 1]]
        built == il_build([s EXCEPT !.items = left], left)
    IN  [built EXCEPT !.selected = IF index < Len(built.items)
                                   THEN index * 2 + 2 ELSE index * 2]

\* ItemListSubmenu.clear_items()
il_clear_items(s) == [il_build(s, << >>) EXCEPT !.selected = 0]

\* ItemListSubmenu.set_items(items)
il_set_items(s, items) == il_build(s, items)

NewItemList(items, max_items) ==
    il_build([kcds |-> << >>, items |-> << >>, selected |-> 0,
              max_items |-> max_items], items)

IlIdle == il = NewItemList(<< >>, 1)

\* The main thread before UserInterface.ui_loop, no background thread inside
\* Menu.draw, a Menu built with the default default_selected (0, 0).
NewThreads(default_selected) ==
    [main |-> "setup", bg |-> "idle", default |-> default_selected,
     applied |-> 0, keyed |-> FALSE, late |-> FALSE]

ThIdle == th = NewThreads(<<0, 0>>)

\* How many threads start() may create.
MaxStarts == 3

\* How many frames the animation has.
NumFrames == 2

\* AnimatedText.__init__: hidden, at frame 0, _running = False, no thread yet.
\* pc[t] is where the t-th thread created by start() is: "none" (not
\* created), "check" (at the while test of __run), "body" (inside the loop
\* body), "done" (left the loop).  stopped[t] records that stop() was called
\* while thread t was in __run (history).
NewAnimatedText ==
    [running |-> FALSE,
     hidden |-> TRUE,
     current_frame |-> 0,
     pc |-> [t \in 1 .. MaxStarts |-> "none"],
     stopped |-> [t \in 1 .. MaxStarts |-> FALSE]]

AnimIdle == anim = NewAnimatedText

ExtraIdle == IlIdle /\ ThIdle /\ AnimIdle

DistIdle ==
    /\ dO = <<0, 0>>
    /\ dP = <<0, 0>>
    /\ dDir = 0
    /\ dRes = 0
    /\ dPc = "idle"

\* The default selections a Menu is constructed with ((0, 0) if none is given).
DefaultChoices == {<<0, 0>>, <<1, 0>>, <<0, 1>>}

Init ==
    /\ submenus = << >>
    /\ selected_submenu = 0
    /\ first_draw = FALSE
    /\ lastPress = NoPress
    /\ err = "none"
    /\ DistIdle
    /\ AloneIdle
    /\ UiIdle
    /\ ExtraIdle

\* The widgets the Menu's groups hold, and how many.
HeldWidgets == {submenus[i].kcds[j].w : <<i, j>> \in
                    {ij \in (1 .. Len(submenus)) \X Widgets :
                         ij[2] <= Len(submenus[ij[1]].kcds)}}

\* The member that receives the keys: Menu.key_behaviour hands the key to
\* submenus[selected_submenu], Submenu.key_behaviour to the member at _selected.
HasFocusIn(subs, sel) ==
    /\ Len(subs) > 0
    /\ sel \in 0 .. (Len(subs) - 1)
    /\ subs[sel + 1].selected \in 0 .. (Len(subs[sel + 1].kcds) - 1)

FocusedKcdIn(subs, sel) == subs[sel + 1].kcds[subs[sel + 1].selected + 1]
FocusIn(subs, sel) == <<sel, subs[sel + 1].selected>>

\* Menu.key_behaviour -> Submenu.key_behaviour handing the key to
\* self._kcds[self._selected] (a Python index) instead of comparing each
\* member's index with _selected.
key_receivers_indexed(subs, sel) ==
    IF Len(subs) = 0 \/ ~PyIndexOk(subs, sel) THEN {}
    ELSE IF ~PyIndexOk(subs[PyPos(subs, sel)].kcds, subs[PyPos(subs, sel)].selected) THEN {}
    ELSE {<<PyPos(subs, sel) - 1,
            PyPos(subs[PyPos(subs, sel)].kcds, subs[PyPos(subs, sel)].selected) - 1>>}

\* The widgets <<group, member>> (0-based) that a key given to
\* Menu.key_behaviour reaches: the Menu hands it to the group at
\* selected_submenu, the group to each member whose index equals _selected.
key_receivers(subs, sel) ==
    IF Len(subs) = 0 \/ ~PyIndexOk(subs, sel) THEN {}
    ELSE {<<PyPos(subs, sel) - 1, i>> : i \in
              {k \in 0 .. (Len(subs[PyPos(subs, sel)].kcds) - 1) :
                   k = subs[PyPos(subs, sel)].selected}}

\* The origin a Button passes to its goto on an arrow key: the bottom-right
\* corner of its hitbox for Right, the top-left corner otherwise.
button_origin(w, direction) ==
    IF direction = 1 THEN get_hitbox(w).br ELSE get_hitbox(w).tl

\* The points the focused widget may pass as origin.
OriginsIn(subs, sel) ==
    IF HasFocusIn(subs, sel) THEN OriginPoints(get_hitbox(FocusedKcdIn(subs, sel).w)) ELSE {}

HasFocus == HasFocusIn(submenus, selected_submenu)
FocusedKcd == FocusedKcdIn(submenus, selected_submenu)
Focus == FocusIn(submenus, selected_submenu)
Origins == OriginsIn(submenus, selected_submenu)

\* Menu.add_key_capture_drawable(w, g)
AddKcd(w, g) ==
    /\ w \notin HeldWidgets
    /\ PyIndexOk(submenus, g) \/ Len(submenus) < MaxSubmenus
    /\ \E r \in {add_key_capture_drawable(submenus, w, g)} :
           /\ submenus' = r.submenus
           /\ err' = r.err
    /\ lastPress' = NoPress
    /\ UNCHANGED <<selected_submenu, first_draw>>
    /\ UNCHANGED <<distVars, aloneVars, uiVars, extraVars>>

\* Menu.set_submenu(Submenu(), idx): a new, empty Submenu replaces the group at
\* idx or is appended.  (A Submenu filled before the call is the same object as
\* one filled by add_key_capture_drawable after it.)
SetSubmenu(idx) ==
    /\ idx < Len(submenus) \/ Len(submenus) < MaxSubmenus
    /\ \E r \in {set_submenu(submenus, NewSubmenu, idx)} :
           /\ submenus' = r.submenus
           /\ err' = r.err
    /\ lastPress' = NoPress
    /\ UNCHANGED <<selected_submenu, first_draw>>
    /\ UNCHANGED <<distVars, aloneVars, uiVars, extraVars>>

\* Submenu.clear() on the group at index g.
ClearSubmenu(g) ==
    /\ g \in 0 .. (Len(submenus) - 1)
    /\ Len(submenus[g + 1].kcds) > 0
    /\ submenus' = [submenus EXCEPT ![g + 1] = submenu_clear(@)]
    /\ err' = "none"
    /\ lastPress' = NoPress
    /\ UNCHANGED <<selected_submenu, first_draw>>
    /\ UNCHANGED <<distVars, aloneVars, uiVars, extraVars>>

\* Menu.draw for the first time: _do_first_draw selects the default.  The
\* Menu's _default_selected is set by the constructor and read only here, so
\* the constructor's argument is drawn here.
FirstDraw(default_selected) ==
    /\ ~first_draw
    /\ first_draw' = TRUE
    /\ \E r \in {select_key_capture_drawable(submenus, selected_submenu,
                                            default_selected[1], default_selected[2])} :
           /\ submenus' = r.submenus
           /\ selected_submenu' = r.selected_submenu
    /\ err' = "none"
    /\ lastPress' = NoPress
    /\ UNCHANGED <<distVars, aloneVars, uiVars, extraVars>>

\* An arrow key reaches the focused widget, which calls its capture_goto (the
\* handle_kcd_goto of its group) with a point of its hitbox and the direction.
Press(origin, direction) ==
    /\ first_draw
    /\ HasFocus
    /\ origin \in Origins
    /\ \E r \in {handle_kcd_goto(submenus, selected_submenu, selected_submenu,
                                origin, direction)} :
           /\ submenus' = r.submenus
           /\ selected_submenu' = r.selected_submenu
           /\ err' = r.err
           /\ lastPress' = [kind |-> "press", dir |-> direction,
                            from |-> Focus, handoff |-> r.handoff]
    /\ UNCHANGED first_draw
    /\ UNCHANGED <<distVars, aloneVars, uiVars, extraVars>>

\* The focused widget calls its capture_goto with a direction outside 0..3.
KcdGotoInvalid(origin, direction) ==
    /\ first_draw
    /\ HasFocus
    /\ origin \in Origins
    /\ \E r \in {handle_kcd_goto(submenus, selected_submenu, selected_submenu,
                                origin, direction)} :
           /\ submenus' = r.submenus
           /\ selected_submenu' = r.selected_submenu
           /\ err' = r.err
           /\ lastPress' = [kind |-> "kcd_goto", dir |-> direction,
                            from |-> Focus, handoff |-> r.handoff]
    /\ UNCHANGED first_draw
    /\ UNCHANGED <<distVars, aloneVars, uiVars, extraVars>>

\* Menu.handle_submenu_goto called with a direction outside 0..3.
MenuGotoInvalid(origin, direction) ==
    /\ first_draw
    /\ HasFocus
    /\ origin \in Origins
    /\ \E r \in {handle_submenu_goto(submenus, selected_submenu, origin, direction)} :
           /\ submenus' = r.submenus
           /\ selected_submenu' = r.selected_submenu
           /\ err' = r.err
           /\ lastPress' = [kind |-> "menu_goto", dir |-> direction,
                            from |-> Focus, handoff |-> r.ret]
    /\ UNCHANGED first_draw
    /\ UNCHANGED <<distVars, aloneVars, uiVars, extraVars>>

\* The life cycle of a Menu: its widgets are added before it is first drawn,
\* and keys are read after each draw.
Next ==
    \/ \E w \in Widgets, g \in 0 .. MaxSubmenus : ~first_draw /\ AddKcd(w, g)
    \/ \E ds \in DefaultChoices : FirstDraw(ds)
    \/ \E origin \in Origins, d \in Directions : Press(origin, d)

Spec == Init /\ [][Next]_vars

\* The same with groups replaced or emptied during the set-up.
NextOps ==
    \/ \E w \in Widgets, g \in 0 .. MaxSubmenus : ~first_draw /\ AddKcd(w, g)
    \/ \E idx \in 0 .. MaxSubmenus : ~first_draw /\ SetSubmenu(idx)
    \/ \E g \in 0 .. (MaxSubmenus - 1) : ~first_draw /\ ClearSubmenu(g)
    \/ \E ds \in DefaultChoices : FirstDraw(ds)
    \/ \E origin \in Origins, d \in Directions : Press(origin, d)

SpecOps == Init /\ [][NextOps]_vars

\* The same with groups installed by set_submenu (empty until widgets are
\* added to them), none emptied afterwards.
NextSet ==
    \/ \E w \in Widgets, g \in 0 .. MaxSubmenus : ~first_draw /\ AddKcd(w, g)
    \/ \E idx \in 0 .. MaxSubmenus : ~first_draw /\ SetSubmenu(idx)
    \/ \E ds \in DefaultChoices : FirstDraw(ds)
    \/ \E origin \in Origins, d \in Directions : Press(origin, d)

SpecSet == Init /\ [][NextSet]_vars

\* The life cycle of a Menu whose widgets and groups also call the two gotos
\* with a direction outside 0..3.
NextCalls ==
    \/ \E w \in Widgets, g \in 0 .. MaxSubmenus : ~first_draw /\ AddKcd(w, g)
    \/ \E ds \in DefaultChoices : FirstDraw(ds)
    \/ \E origin \in Origins, d \in Directions : Press(origin, d)
    \/ \E origin \in Origins, d \in InvalidDirections : KcdGotoInvalid(origin, d)
    \/ \E origin \in Origins, d \in InvalidDirections : MenuGotoInvalid(origin, d)

SpecCalls == Init /\ [][NextCalls]_vars

(***************************************************************************)
(* Direct calls of Drawable.distance                                       *)
(***************************************************************************)
CallDistance ==
    /\ dPc = "call"
    /\ dRes' = distance(dO, dP, dDir)
    /\ dPc' = "done"
    /\ UNCHANGED <<dO, dP, dDir>>
    /\ UNCHANGED <<menuVars, aloneVars, uiVars, extraVars>>

MenuIdle ==
    /\ submenus = << >>
    /\ selected_submenu = 0
    /\ first_draw = FALSE
    /\ lastPress = NoPress
    /\ err = "none"

InitDist ==
    /\ MenuIdle
    /\ dO \in Grid
    /\ dP \in Grid
    /\ dDir \in Directions \cup InvalidDirections
    /\ dRes = 0
    /\ dPc = "call"
    /\ AloneIdle
    /\ UiIdle
    /\ ExtraIdle

NextDist == CallDistance

SpecDist == InitDist /\ [][NextDist]_vars

(***************************************************************************)
(* A Submenu built by its own add calls                                    *)
(***************************************************************************)
StandaloneWidgets == {standalone.kcds[j].w : j \in 1 .. Len(standalone.kcds)}

\* Submenu.add(kcd) on the Submenu that is in no Menu, kcd not yet a member.
SubmenuAdd(w) ==
    /\ w \notin StandaloneWidgets
    /\ standalone' = submenu_add(standalone, w)
    /\ UNCHANGED <<menuVars, distVars, uiVars, extraVars>>

InitAdd ==
    /\ MenuIdle
    /\ DistIdle
    /\ AloneIdle
    /\ UiIdle
    /\ ExtraIdle

NextAdd == \E w \in AllWidgets : SubmenuAdd(w)

SpecAdd == InitAdd /\ [][NextAdd]_vars

(***************************************************************************)
(* A Submenu used on its own: members added, dropped (clear) and selected  *)
(* (activate), as ItemListSubmenu does when it rebuilds itself.            *)
(***************************************************************************)
\* Submenu.clear on the Submenu that is in no Menu.
SubmenuClear ==
    /\ Len(standalone.kcds) > 0
    /\ standalone' = submenu_clear(standalone)
    /\ err' = "none"
    /\ UNCHANGED <<submenus, selected_submenu, first_draw, lastPress>>
    /\ UNCHANGED <<distVars, uiVars, extraVars>>

\* Submenu.activate(index), index a member's index or -1.
SubmenuActivate(index) ==
    /\ index \in -1 .. (Len(standalone.kcds) - 1)
    /\ standalone' = activate(standalone, index)
    /\ err' = "none"
    /\ UNCHANGED <<submenus, selected_submenu, first_draw, lastPress>>
    /\ UNCHANGED <<distVars, uiVars, extraVars>>

\* Submenu._capture_remove(direction): the call a Menu makes on the group that
\* loses the focus.
SubmenuRemove ==
    /\ \E r \in {submenu_capture_remove(standalone, 0)} :
           /\ standalone' = r.s
           /\ err' = r.err
    /\ UNCHANGED <<submenus, selected_submenu, first_draw, lastPress>>
    /\ UNCHANGED <<distVars, uiVars, extraVars>>

NextGroup ==
    \/ \E w \in Widgets : SubmenuAdd(w)
    \/ SubmenuClear
    \/ \E index \in -1 .. (Len(Catalogue) - 1) : SubmenuActivate(index)
    \/ SubmenuRemove

SpecGroup == InitAdd /\ [][NextGroup]_vars

(***************************************************************************)
(* The UserInterface: its main loop reads a key after each draw and hands  *)
(* it to key_behaviour, which stops the loop on 'q' or passes the key to   *)
(* the current Menu or to the Menu on top of the stack.                    *)
(***************************************************************************)
MaxTop == 2        \* menus stacked on top (UserInterface.menus_top)

\* The widgets that are TextInputs (the others are Buttons): Enter makes a
\* TextInput capture text, and sets its bypass_if_activated.
TextInputs == {1, 3}

\* Submenu.should_bypass: the member at _selected (a Python index, -1 is the
\* last member) has no bypass_if_activated; False on IndexError.
submenu_should_bypass(s, capturing) ==
    IF PyIndexOk(s.kcds, s.selected)
    THEN s.kcds[PyPos(s.kcds, s.selected)].w \notin capturing
    ELSE FALSE

\* Menu.should_bypass: that of the group at selected_submenu; False on
\* IndexError.
menu_should_bypass(m, capturing) ==
    IF PyIndexOk(m.submenus, m.selected_submenu)
    THEN submenu_should_bypass(m.submenus[PyPos(m.submenus, m.selected_submenu)],
                               capturing)
    ELSE FALSE

\* The condition of UserInterface.key_behaviour under which 'q' stops the loop.
quits(u, cur) ==
    /\ menu_should_bypass(cur, u.capturing)
    /\ \/ /\ Len(u.menus_top) > 0
          /\ menu_should_bypass(u.menus_top[Len(u.menus_top)], u.capturing)
       \/ Len(u.menus_top) = 0

\* Menu.key_behaviour -> Submenu.key_behaviour -> the member whose index is
\* _selected (no member when _selected is -1) -> TextInput.key_behaviour:
\* Enter switches a TextInput between hover and activate, which clears and
\* sets its bypass_if_activated.  The other keys leave the flags alone.
menu_key_behaviour(m, capturing, key) ==
    IF HasFocusIn(m.submenus, m.selected_submenu) /\ key = "enter"
    THEN LET w == FocusedKcdIn(m.submenus, m.selected_submenu).w
         IN  IF w \notin TextInputs THEN capturing
             ELSE IF w \in capturing THEN capturing \ {w}
             ELSE capturing \cup {w}
    ELSE capturing

\* UserInterface.key_behaviour(key) for the keys "q" and "enter".
ui_key_behaviour(u, cur, key) ==
    IF key = "q" /\ quits(u, cur)
    THEN [u EXCEPT !.running = FALSE, !.interrupted = TRUE,
                   !.last = [key |-> key, to |-> "none"]]
    ELSE IF Len(u.menus_top) = 0
    THEN [u EXCEPT !.capturing = menu_key_behaviour(cur, u.capturing, key),
                   !.last = [key |-> key, to |-> "current"]]
    ELSE [u EXCEPT !.capturing = menu_key_behaviour(u.menus_top[Len(u.menus_top)],
                                                    u.capturing, key),
                   !.last = [key |-> key, to |-> "top"]]

\* The Menus put on top: one without key-capturing widget (a message), or one
\* with a single widget, drawn and so focused.
EmptyMenu == [submenus |-> << >>, selected_submenu |-> 0]
Dialog(w) ==
    Let(add_key_capture_drawable(<< >>, w, 0), LAMBDA a :
        select_key_capture_drawable(a.submenus, 0, 0, 0))
TopMenus == {EmptyMenu} \cup {Dialog(w) : w \in Widgets}
WidgetsOf(m) == {m.submenus[i].kcds[j].w : <<i, j>> \in
                    {ij \in (1 .. Len(m.submenus)) \X Widgets :
                         ij[2] <= Len(m.submenus[ij[1]].kcds)}}
TopWidgets == UNION {WidgetsOf(ui.menus_top[k]) : k \in 1 .. Len(ui.menus_top)}

BeforeLoop == ~ui.running /\ ~ui.interrupted

\* UserInterface.ui_loop is entered: running = True.
UiLoopStart ==
    /\ BeforeLoop
    /\ ui' = [ui EXCEPT !.running = TRUE]
    /\ UNCHANGED <<menuVars, distVars, aloneVars, extraVars>>

\* UserInterface.add_top(menu), called by a handler while the loop runs.
AddTop(menu) ==
    /\ ui.running
    /\ first_draw
    /\ Len(ui.menus_top) < MaxTop
    /\ WidgetsOf(menu) \cap (HeldWidgets \cup TopWidgets) = {}
    /\ ui' = [ui EXCEPT !.menus_top = Append(@, menu)]
    /\ UNCHANGED <<menuVars, distVars, aloneVars, extraVars>>

\* UserInterface.pop_top()
PopTop ==
    /\ ui.running
    /\ Len(ui.menus_top) > 0
    /\ ui' = [ui EXCEPT !.menus_top = SubSeq(@, 1, Len(@) - 1)]
    /\ UNCHANGED <<menuVars, distVars, aloneVars, extraVars>>

\* One turn of the loop after the draw: getch returns key, key_behaviour(key).
UiKey(key) ==
    /\ ui.running
    /\ first_draw
    /\ ui' = ui_key_behaviour(ui, [submenus |-> submenus,
                                    selected_submenu |-> selected_submenu], key)
    /\ UNCHANGED <<menuVars, distVars, aloneVars, extraVars>>

\* The Menu is filled before the loop is entered; the first turn of the loop
\* draws it, the later turns read keys.
NextUi ==
    \/ \E w \in Widgets, g \in 0 .. MaxSubmenus : BeforeLoop /\ AddKcd(w, g)
    \/ UiLoopStart
    \/ \E ds \in DefaultChoices : ui.running /\ FirstDraw(ds)
    \/ \E menu \in TopMenus : AddTop(menu)
    \/ PopTop
    \/ \E key \in {"q", "enter"} : UiKey(key)

SpecUi == Init /\ [][NextUi]_vars

(***************************************************************************)
(* Drawable.distance on the 6x6 example of its docstrings                  *)
(***************************************************************************)
\* The MAX_DELTA of the docstrings' example ("example 6x6 with MAX_DELTA = 6").
TABLE_MAX_DELTA == 6

\* Drawable.distance(origin, p, direction) of a build whose MAX_DELTA is M.
distance_md(M, origin, p, direction) ==
    LET y1 == origin[1]
        x1 == origin[2]
        y2 == p[1]
        x2 == p[2]
        dx == x2 - x1
        dy == y2 - y1
    IN  IF x1 = x2 /\ y1 = y2 THEN M * M
        ELSE IF direction = 0 THEN
            IF dy > 0 /\ dx >= 0 THEN 0 + dy + dx * (M - y1 - 1)
            ELSE IF dy > 0 /\ dx < 0
            THEN M * M + (M - y1 - 1) * (M - x1) + (dy - 1) * x1 + x2 + 1
            ELSE IF dy <= 0 /\ dx > 0
            THEN 2 * M * M + (M - y1 - 1) * M + (dx - 1) * (y1 + 1) + y2 + 1
            ELSE 3 * M * M + (M - y1 - 1) * M
                 + (y1 + 1) * (M - x1 - 1) + x2 * (y1 + 1) + y2 + 1
        ELSE IF direction = 1 THEN
            IF dx > 0 /\ dy = 0 THEN 0 + dx
            ELSE IF dx > 0 /\ dy < 0 THEN M * M + (y1 - y2) + (dx - 1) * y1
            ELSE IF dx > 0 /\ dy > 0 THEN 2 * M * M + dy + (dx - 1) * (M - y1 - 1)
            ELSE IF dx = 0 /\ dy > 0 THEN 3 * M * M + dy
            ELSE 4 * M * M + y2 + x2 * M
        ELSE IF direction = 2 THEN
            IF dy < 0 /\ dx <= 0 THEN 0 + y1 * (x1 - x2) + y1 - y2
            ELSE IF dy < 0 /\ dx > 0
            THEN M * M + y1 * (x1 + 1) + (dx - 1) * y1 + y1 - y2
            ELSE IF dy = 0 /\ dx < 0 THEN 2 * M * M + y1 * M + (x1 - x2)
            ELSE IF dy > 0 /\ dx < 0
            THEN 2 * M * M + (y1 * M + x1) + x1 * (M - y2 - 1) + x1 - x2
            ELSE 3 * M * M + (y1 * M + (M - y1) * x1)
                 + (M - x1) * (M - y2 - 1) + M - x2
        ELSE IF direction = 3 THEN
            IF dx < 0 /\ dy = 0 THEN 0 + (x1 - x2)
            ELSE IF dx < 0 /\ dy < 0 THEN M * M + (y1 - y2) + y1 * (x1 - x2 - 1)
            ELSE IF dx < 0 /\ dy > 0
            THEN 2 * M * M + (M - y2 - 1) + (x1 - x2 - 1) * (M - y1 - 1)
            ELSE IF dx = 0 /\ dy < 0 THEN 3 * M * M + y1 - y2
            ELSE 4 * M * M + y2 + (M - x1 - 1) * M
        ELSE ValueError

\* The order tables of the docstrings, by direction (1-based: down, right, up,
\* left), row and column.
OrderTables ==
    << << <<31, 33, 35, 25, 27, 29>>,
          <<32, 34, 36, 26, 28, 30>>,
          <<17, 18,  1,  5,  9, 13>>,
          <<19, 20,  2,  6, 10, 14>>,
          <<21, 22,  3,  7, 11, 15>>,
          <<23, 24,  4,  8, 12, 16>> >>,
       << <<22, 28, 34,  5,  7,  9>>,
          <<23, 29, 35,  4,  6,  8>>,
          <<24, 30, 36,  1,  2,  3>>,
          <<25, 31, 19, 10, 13, 16>>,
          <<26, 32, 20, 11, 14, 17>>,
          <<27, 33, 21, 12, 15, 18>> >>,
       << << 6,  4,  2,  8, 10, 12>>,
          << 5,  3,  1,  7,  9, 11>>,
          <<14, 13, 36, 35, 34, 33>>,
          <<20, 19, 32, 31, 30, 29>>,
          <<18, 17, 28, 27, 26, 25>>,
          <<16, 15, 24, 23, 22, 21>> >>,
       << << 9,  7,  5, 34, 28, 22>>,
          << 8,  6,  4, 35, 29, 23>>,
          << 3,  2,  1, 36, 30, 24>>,
          <<16, 13, 10, 19, 31, 25>>,
          <<17, 14, 11, 20, 32, 26>>,
          <<18, 15, 12, 21, 33, 27>> >> >>

TableCells == (0 .. (TABLE_MAX_DELTA - 1)) \X (0 .. (TABLE_MAX_DELTA - 1))
TableRank(direction, cell) == OrderTables[direction + 1][cell[1] + 1][cell[2] + 1]

\* The origin of a table: the cell the table ranks last.
TableOrigin(direction) ==
    CHOOSE cell \in TableCells :
        TableRank(direction, cell) = TABLE_MAX_DELTA * TABLE_MAX_DELTA

\* Drawable.distance called on a cell of the example, from the table's origin.
CallTableDistance ==
    /\ dPc = "table"
    /\ dRes' = distance_md(TABLE_MAX_DELTA, dO, dP, dDir)
    /\ dPc' = "ranked"
    /\ UNCHANGED <<dO, dP, dDir>>
    /\ UNCHANGED <<menuVars, aloneVars, uiVars, extraVars>>

InitTable ==
    /\ MenuIdle
    /\ dDir \in Directions
    /\ dO = TableOrigin(dDir)
    /\ dP \in TableCells
    /\ dRes = 0
    /\ dPc = "table"
    /\ AloneIdle
    /\ UiIdle
    /\ ExtraIdle

NextTable == CallTableDistance

SpecTable == InitTable /\ [][NextTable]_vars

(***************************************************************************)
(* An ItemListSubmenu and its public operations                            *)
(***************************************************************************)
ItemCap == 3       \* items held at most
MaxLimit == 2      \* max_items given to the constructor: 0 .. MaxLimit

Texts == {"a", "b"}
ItemLists == UNION {[1 .. n -> Texts] : n \in 0 .. ItemCap}

IlAddItem(value) ==
    /\ Len(il.items) < ItemCap
    /\ il' = il_add_item(il, value)
    /\ UNCHANGED <<menuVars, distVars, aloneVars, uiVars, th, anim>>

IlRemoveItem(index) ==
    /\ index \in 0 .. (Len(il.items) - 1)
    /\ il' = il_remove_item(il, index)
    /\ UNCHANGED <<menuVars, distVars, aloneVars, uiVars, th, anim>>

IlClearItems ==
    /\ il' = il_clear_items(il)
    /\ UNCHANGED <<menuVars, distVars, aloneVars, uiVars, th, anim>>

IlSetItems(items) ==
    /\ il' = il_set_items(il, items)
    /\ UNCHANGED <<menuVars, distVars, aloneVars, uiVars, th, anim>>

\* Submenu._capture_remove(direction), called by the Menu when the focus goes
\* to another group: the selected member is removed and the index set to -1.
IlCaptureRemove ==
    /\ PyIndexOk(il.kcds, il.selected)
    /\ il' = [il EXCEPT !.selected = -1]
    /\ UNCHANGED <<menuVars, distVars, aloneVars, uiVars, th, anim>>

InitList ==
    /\ MenuIdle
    /\ DistIdle
    /\ AloneIdle
    /\ UiIdle
    /\ ThIdle
    /\ AnimIdle
    /\ \E items \in ItemLists, max_items \in 0 .. MaxLimit :
           il = NewItemList(items, max_items)

NextList ==
    \/ \E value \in Texts : IlAddItem(value)
    \/ \E index \in 0 .. (ItemCap - 1) : IlRemoveItem(index)
    \/ IlClearItems
    \/ \E items \in ItemLists : IlSetItems(items)
    \/ IlCaptureRemove

SpecList == InitList /\ [][NextList]_vars

(***************************************************************************)
(* Claims about Drawable.distance (checked under SpecDist)                 *)
(***************************************************************************)
DistanceDone == dPc = "done" /\ dDir \in Directions

\* P is straight ahead of O: same column below/above for down/up, same row
\* right/left for right/left.
StraightAhead(O, P, d) ==
    IF d = 0 THEN P[2] = O[2] /\ P[1] > O[1]
    ELSE IF d = 1 THEN P[1] = O[1] /\ P[2] > O[2]
    ELSE IF d = 2 THEN P[2] = O[2] /\ P[1] < O[1]
    ELSE P[1] = O[1] /\ P[2] < O[2]

\* P lies strictly on the travel side of O.
TravelSide(O, P, d) ==
    IF d = 0 THEN P[1] > O[1]
    ELSE IF d = 1 THEN P[2] > O[2]
    ELSE IF d = 2 THEN P[1] < O[1]
    ELSE P[2] < O[2]

\* Number of cells between O and a point straight ahead of it.
AheadSteps(O, P, d) ==
    IF d = 0 THEN P[1] - O[1]
    ELSE IF d = 1 THEN P[2] - O[2]
    ELSE IF d = 2 THEN O[1] - P[1]
    ELSE O[2] - P[2]

\* C5 (as claimed): the distance from a point to itself is at least the distance
\* from that point to every other point of the grid, for every direction.
C5_SelfDistanceMaximal ==
    (DistanceDone /\ dP = dO) =>
        \A Q \in Grid : dRes >= distance(dO, Q, dDir)

\* C6: zone ranking.  (a) a point straight ahead of the origin scores lower than
\* every point that is not straight ahead, and among straight-ahead points the
\* nearer scores lower; (b) a point strictly on the travel side scores lower
\* than every point that is not on the travel side.
C6_ZoneRanking ==
    (DistanceDone /\ dP # dO) =>
        \A Q \in Grid \ {dO} :
            /\ (StraightAhead(dO, dP, dDir) /\ ~StraightAhead(dO, Q, dDir))
                   => dRes < distance(dO, Q, dDir)
            /\ (/\ StraightAhead(dO, dP, dDir)
                /\ StraightAhead(dO, Q, dDir)
                /\ AheadSteps(dO, dP, dDir) < AheadSteps(dO, Q, dDir))
                   => dRes < distance(dO, Q, dDir)
            /\ (TravelSide(dO, dP, dDir) /\ ~TravelSide(dO, Q, dDir))
                   => dRes < distance(dO, Q, dDir)

\* C6 witness: a call for a point on the travel side that is not straight ahead,
\* while the grid also holds straight-ahead points and points behind the origin.
C6_Witness ==
    /\ DistanceDone
    /\ dP # dO
    /\ TravelSide(dO, dP, dDir)
    /\ ~StraightAhead(dO, dP, dDir)
    /\ \E Q \in Grid : StraightAhead(dO, Q, dDir)
    /\ \E Q \in Grid \ {dO} : ~TravelSide(dO, Q, dDir)
    /\ dRes >= MAX_DELTA * MAX_DELTA

\* C7: disjoint bands.  For O # P the score is a non-negative integer inside
\* [sup, sup + MAX_DELTA^2), sup = k * MAX_DELTA^2 being the supplement of the
\* zone the code puts P in; so a point of a lower band always scores lower.
C7_DisjointBands ==
    (DistanceDone /\ dP # dO) =>
        LET sup == zone(dO, dP, dDir).sup IN
        /\ dRes >= 0
        /\ sup \in {k * MAX_DELTA * MAX_DELTA : k \in 0 .. 4}
        /\ sup <= dRes
        /\ dRes < sup + MAX_DELTA * MAX_DELTA
        /\ \A Q \in Grid \ {dO} :
               zone(dO, Q, dDir).sup < sup => distance(dO, Q, dDir) < dRes

\* C7 witness: a score at the very top of a band (offset MAX_DELTA^2 - 1).
C7_Witness ==
    /\ DistanceDone
    /\ dP # dO
    /\ dRes = zone(dO, dP, dDir).sup + MAX_DELTA * MAX_DELTA - 1

\* C8 (as claimed): for a direction outside {0,1,2,3} the call raises, whatever
\* the two points are.
C8_InvalidDirectionRaises ==
    (dPc = "done" /\ dDir \notin Directions) => dRes = ValueError

(***************************************************************************)
(* Claims about the navigation between widgets (checked under Spec)        *)
(***************************************************************************)
\* The members whose most recent take/remove call is a take.
Takes(subs) ==
    {ij \in (1 .. Len(subs)) \X (1 .. Len(Catalogue)) :
         /\ ij[2] <= Len(subs[ij[1]].kcds)
         /\ subs[ij[1]].kcds[ij[2]].focus = "take"}

\* Exactly one widget is focused.
ExactlyOneFocused(subs, sel) ==
    /\ HasFocusIn(subs, sel)
    /\ \A i \in 1 .. Len(subs) : i # sel + 1 => subs[i].selected = -1
    /\ Takes(subs) = {<<sel + 1, subs[sel + 1].selected + 1>>}

AllGroupsHold == \A i \in 1 .. Len(submenus) : Len(submenus[i].kcds) >= 1

\* C1: no focus loss.  In a Menu whose groups all hold a widget, after each
\* arrow press the press has raised nothing and exactly one widget is focused:
\* selected_submenu indexes a group whose selected index is that of a member,
\* every other group has selected index -1, and the selected member is the
\* only widget whose most recent take/remove call is a take.
C1_NoFocusLoss ==
    (lastPress.kind = "press" /\ AllGroupsHold) =>
        /\ err = "none"
        /\ ExactlyOneFocused(submenus, selected_submenu)

\* C1 witness: a press in a Menu of two groups that the Menu answered with
\* False, after which the group re-selected a member.
C1_Witness ==
    /\ lastPress.kind = "press"
    /\ lastPress.handoff = "False"
    /\ Len(submenus) = 2
    /\ AllGroupsHold
    /\ ExactlyOneFocused(submenus, selected_submenu)

\* The Menu of the two-group scenario: A = (0,0)-(0,9) alone in group 0,
\* B = (0,20)-(0,29) alone in group 1.
TwoGroups ==
    /\ Len(submenus) = 2
    /\ Len(submenus[1].kcds) = 1
    /\ Len(submenus[2].kcds) = 1
    /\ get_hitbox(submenus[1].kcds[1].w) = Hitbox(<<0, 0>>, <<0, 9>>)
    /\ get_hitbox(submenus[2].kcds[1].w) = Hitbox(<<0, 20>>, <<0, 29>>)

\* C2 (as claimed): in the two-group Menu, Right pressed from A's widget moves
\* the focus to B's widget; Right pressed from B's widget makes
\* handle_submenu_goto return False and the focus stays on B's widget
\* (selected_submenu 1, B's selected index 0, A's -1).
C2_TwoGroupScenario ==
    (TwoGroups /\ lastPress.kind = "press" /\ lastPress.dir = 1) =>
        /\ lastPress.from = <<0, 0>> =>
               (err = "none" /\ HasFocus /\ Focus = <<1, 0>>)
        /\ lastPress.from = <<1, 0>> =>
               /\ err = "none"
               /\ lastPress.handoff = "False"
               /\ selected_submenu = 1
               /\ submenus[2].selected = 0
               /\ submenus[1].selected = -1

\* The Menu as a value, and the Menu after its focused widget has passed a
\* point of its hitbox and a direction to its goto.
Current == [submenus |-> submenus, selected_submenu |-> selected_submenu]
Pressed(m, origin, direction) ==
    handle_kcd_goto(m.submenus, m.selected_submenu, m.selected_submenu, origin, direction)
OriginsOf(m) == OriginsIn(m.submenus, m.selected_submenu)
HasFocusOf(m) == HasFocusIn(m.submenus, m.selected_submenu)
FocusedWidget(m) == FocusedKcdIn(m.submenus, m.selected_submenu).w
RowOf(w) == get_hitbox(w).tl[1]

\* The Menu of the three-stack scenario: one group holding three widgets of
\* the same columns at rows 0, 5 and 10.
ThreeStack ==
    /\ Len(submenus) = 1
    /\ Len(submenus[1].kcds) = 3
    /\ {RowOf(submenus[1].kcds[j].w) : j \in 1 .. 3} = {0, 5, 10}
    /\ \A j \in 1 .. 3 :
           /\ get_hitbox(submenus[1].kcds[j].w).tl[2] = get_hitbox(submenus[1].kcds[1].w).tl[2]
           /\ get_hitbox(submenus[1].kcds[j].w).br[2] = get_hitbox(submenus[1].kcds[1].w).br[2]

\* C3: three-stack scenario.  With the focus on the row-0 widget, Down pressed
\* twice puts the focus on the row-10 widget and Up pressed once then puts it
\* on the row-5 widget, whatever point of its hitbox each widget passes; none
\* of the three presses raises or hands off to the Menu.
C3_ThreeStackScenario ==
    (ThreeStack /\ first_draw /\ HasFocus /\ RowOf(FocusedKcd.w) = 0) =>
        \A o1 \in Origins :
            LET r1 == Pressed(Current, o1, 0) IN
            /\ r1.err = "none" /\ r1.handoff = "none" /\ HasFocusOf(r1)
            /\ \A o2 \in OriginsOf(r1) :
                   LET r2 == Pressed(r1, o2, 0) IN
                   /\ r2.err = "none" /\ r2.handoff = "none" /\ HasFocusOf(r2)
                   /\ RowOf(FocusedWidget(r2)) = 10
                   /\ \A o3 \in OriginsOf(r2) :
                          LET r3 == Pressed(r2, o3, 2) IN
                          /\ r3.err = "none" /\ r3.handoff = "none" /\ HasFocusOf(r3)
                          /\ RowOf(FocusedWidget(r3)) = 5

\* C3 witness: in the three-stack Menu, Up has been pressed on the row-10
\* widget without a handoff and the focus is on the row-5 widget.
C3_Witness ==
    /\ ThreeStack
    /\ lastPress.kind = "press"
    /\ lastPress.dir = 2
    /\ lastPress.handoff = "none"
    /\ RowOf(submenus[1].kcds[lastPress.from[2] + 1].w) = 10
    /\ HasFocus
    /\ RowOf(FocusedKcd.w) = 5

\* The Menu holds exactly two widgets, in one group or in a group each.
TwoWidgets ==
    /\ Cardinality(HeldWidgets) = 2
    /\ \/ Len(submenus) = 1 /\ Len(submenus[1].kcds) = 2
       \/ Len(submenus) = 2 /\ Len(submenus[1].kcds) = 1 /\ Len(submenus[2].kcds) = 1

\* Hitboxes of the same columns on different rows / the same rows on different columns.
AlignedVertically(a, b) ==
    /\ get_hitbox(a).tl[2] = get_hitbox(b).tl[2]
    /\ get_hitbox(a).br[2] = get_hitbox(b).br[2]
    /\ get_hitbox(a).br[1] < get_hitbox(b).tl[1]
AlignedHorizontally(a, b) ==
    /\ get_hitbox(a).tl[1] = get_hitbox(b).tl[1]
    /\ get_hitbox(a).br[1] = get_hitbox(b).br[1]
    /\ get_hitbox(a).br[2] < get_hitbox(b).tl[2]

\* The focus after `there` then `back` have been pressed, for every point the
\* two widgets may pass, is on the widget it started on.
RoundTrip(there, back) ==
    \A o1 \in Origins :
        LET r1 == Pressed(Current, o1, there) IN
        /\ r1.err = "none" /\ HasFocusOf(r1)
        /\ \A o2 \in OriginsOf(r1) :
               LET r2 == Pressed(r1, o2, back) IN
               /\ r2.err = "none" /\ HasFocusOf(r2)
               /\ FocusedWidget(r2) = FocusedKcd.w

\* C4: round-trip law.  In a Menu of exactly two aligned widgets (one group or
\* two), Down then Up pressed from the upper widget, and Right then Left
\* pressed from the left widget, return the focus to that widget.
C4_RoundTrip ==
    (TwoWidgets /\ first_draw /\ HasFocus) =>
        \A b \in HeldWidgets \ {FocusedKcd.w} :
            /\ AlignedVertically(FocusedKcd.w, b) => RoundTrip(0, 2)
            /\ AlignedHorizontally(FocusedKcd.w, b) => RoundTrip(1, 3)

\* C4 witness: two vertically aligned widgets in a group each; Up has been
\* pressed on the lower one, the Menu handed the focus over (returned True)
\* and the focus is on the upper one.
C4_Witness ==
    /\ TwoWidgets
    /\ Len(submenus) = 2
    /\ lastPress.kind = "press"
    /\ lastPress.dir = 2
    /\ lastPress.handoff = "True"
    /\ HasFocus
    /\ \E b \in HeldWidgets \ {FocusedKcd.w} : AlignedVertically(FocusedKcd.w, b)

(***************************************************************************)
(* Claims about the failures of the navigation                             *)
(***************************************************************************)
\* C9 (as claimed, checked under SpecCalls): handle_kcd_goto and
\* handle_submenu_goto, called with a direction outside {0,1,2,3}, raise
\* whatever the groups hold and whatever the origin is.
C9_BadDirectionRaises ==
    lastPress.kind \in {"kcd_goto", "menu_goto"} => err # "none"

\* C10 (as claimed, checked under SpecOps): whatever add_key_capture_drawable,
\* set_submenu, Submenu.clear and the selection have built, an arrow press on
\* the focused widget raises nothing; when the Menu has no group to go to it
\* returns False and the pressing group has a selected member again.
C10_NoCandidateNeverRaises ==
    lastPress.kind = "press" =>
        /\ err = "none"
        /\ lastPress.handoff = "False" =>
               (HasFocus /\ selected_submenu = lastPress.from[1])

(***************************************************************************)
(* Claims about the Menu handoff and the search inside a group             *)
(***************************************************************************)
\* What C11 says of one call handle_submenu_goto(origin, d) made on the Menu
\* <<subs, sel>>, r being what the call left and returned.
HandoffAsClaimed(subs, sel, origin, d, r) ==
    LET D(i) == submenu_distance_from(subs[i + 1], origin, d)
        win == r.selected_submenu
    IN  /\ r.err = "none"
        /\ r.ret \in {"True", "False"}
        /\ \A j \in 0 .. (Len(subs) - 1) : D(win) <= D(j)
        /\ r.ret = "False" <=> win = sel
        /\ r.ret = "False" => r.submenus = subs
        /\ r.ret = "True" =>
               /\ r.submenus[sel + 1].selected = -1
               /\ r.submenus[sel + 1].kcds[subs[sel + 1].selected + 1].focus = "remove"
               /\ r.submenus[win + 1].selected = find_first(subs[win + 1], origin, d)
               /\ r.submenus[win + 1].kcds[r.submenus[win + 1].selected + 1].focus = "take"

\* C11 (as claimed, checked under SpecOps): for a valid direction,
\* handle_submenu_goto picks a group of minimal distance_from over all groups,
\* returns False if and only if that group is the selected one (changing
\* nothing), and otherwise removes the focus from the old group (selected
\* index -1), sets selected_submenu to the winner, calls take on the winner
\* and returns True.
C11_ContainerHandoff ==
    (first_draw /\ HasFocus) =>
        \A origin \in Origins, d \in Directions :
            HandoffAsClaimed(submenus, selected_submenu, origin, d,
                             handle_submenu_goto(submenus, selected_submenu, origin, d))

\* The four corners of the hitbox of widget w.
CornersOf(w) ==
    {get_hitbox(w).tl, get_tr(get_hitbox(w)), get_hitbox(w).br, get_bl(get_hitbox(w))}

\* Some member of the group s whose hitbox does not contain origin has a
\* corner strictly on the travel side of origin.
MemberAhead(s, origin, d) ==
    \E j \in 1 .. Len(s.kcds) :
        /\ ~is_inside(get_hitbox(s.kcds[j].w), origin)
        /\ \E c \in CornersOf(s.kcds[j].w) : TravelSide(origin, c, d)

\* The bounding box of the group s lies strictly above (d = 2) or strictly
\* below (d = 0) origin.
GroupStrictlyAhead(s, origin, d) ==
    IF d = 2 THEN s.br[1] < origin[1] ELSE s.tl[1] > origin[1]

\* The bounding box of the group s has cells strictly above (d = 2) or
\* strictly below (d = 0) origin.
GroupReachesAhead(s, origin, d) ==
    IF d = 2 THEN s.tl[1] < origin[1] ELSE s.br[1] > origin[1]

C13_LocalPriority ==
    (first_draw /\ HasFocus) =>
        \A origin \in Origins, d \in Directions :
            MemberAhead(submenus[selected_submenu + 1], origin, d)
            => LET r == Pressed(Current, origin, d) IN
               /\ r.err = "none"
               /\ r.handoff = "none"
               /\ r.selected_submenu = selected_submenu
               /\ HasFocusOf(r)
               /\ FocusedWidget(r) # FocusedKcd.w
               /\ \A g \in 1 .. Len(submenus) :
                      g # selected_submenu + 1 => r.submenus[g] = submenus[g]

\* C13 witness: Down has been pressed in a Menu of two groups, the Menu was
\* not called, and the focus moved inside the group although the sibling
\* group lies between the widget the press came from and the member that
\* took the focus.
C13_Witness ==
    /\ lastPress.kind = "press"
    /\ lastPress.dir = 0
    /\ lastPress.handoff = "none"
    /\ Len(submenus) = 2
    /\ HasFocus
    /\ selected_submenu = lastPress.from[1]
    /\ Focus # lastPress.from
    /\ \E g \in 1 .. 2 :
           /\ g # selected_submenu + 1
           /\ submenus[g].tl[1] >
                  get_hitbox(submenus[selected_submenu + 1].kcds[lastPress.from[2] + 1].w).br[1]
           /\ submenus[g].br[1] < get_hitbox(FocusedKcd.w).tl[1]

\* C14 (as claimed, checked under Spec): whenever an arrow press moves the
\* focus to a widget, inside the group or through the Menu handoff, that
\* widget's take is called with the origin and the direction of the press.
C14_TakeReceivesPress ==
    (first_draw /\ HasFocus) =>
        \A origin \in Origins, d \in Directions :
            LET r == Pressed(Current, origin, d) IN
            (r.err = "none" /\ HasFocusOf(r) /\ FocusedWidget(r) # FocusedKcd.w)
            => take_call(submenus, selected_submenu, selected_submenu, origin, d)
                   = [origin |-> origin, direction |-> d]

\* The corner of a member find_first measures from, as the claim names it.
EntryCorner(w, d) ==
    IF d \in {0, 1} THEN get_hitbox(w).tl
    ELSE IF d = 2 THEN get_hitbox(w).br
    ELSE get_tr(get_hitbox(w))

AbsDiff(a, b) == IF a >= b THEN a - b ELSE b - a

\* The entry corner of a is at least as near to p as that of b on both axes
\* and strictly nearer on one.
NearerOnBothAxes(a, b, p, d) ==
    LET ca == EntryCorner(a, d)
        cb == EntryCorner(b, d)
    IN  /\ AbsDiff(ca[1], p[1]) <= AbsDiff(cb[1], p[1])
        /\ AbsDiff(ca[2], p[2]) <= AbsDiff(cb[2], p[2])
        /\ \/ AbsDiff(ca[1], p[1]) < AbsDiff(cb[1], p[1])
           \/ AbsDiff(ca[2], p[2]) < AbsDiff(cb[2], p[2])

\* The points a sibling widget passes when it hands the focus over.
EntryPoints == UNION {OriginPoints(get_hitbox(w)) : w \in Widgets}

\* C15 (as claimed, checked under Spec): find_first(point, direction) never
\* returns a member b when another member a of the group has its entry corner
\* at least as near to point on both axes and strictly nearer on one.
C15_FindFirstClosestEntryCorner ==
    \A g \in 1 .. Len(submenus) :
        \A p \in EntryPoints, d \in Directions :
            Len(submenus[g].kcds) > 0 =>
                LET b == find_first(submenus[g], p, d) IN
                \A a \in 1 .. Len(submenus[g].kcds) :
                    ~NearerOnBothAxes(submenus[g].kcds[a].w, submenus[g].kcds[b + 1].w, p, d)

(***************************************************************************)
(* Claims about the programmatic selection and the construction           *)
(***************************************************************************)
\* What activate(index) does to the group s, as the claim states it.
ActivateAsClaimed(s, index) ==
    LET r == activate(s, index)
        calls == activate_calls(s, index)
        n == Len(s.kcds)
    IN  /\ r.selected = index
        /\ Len(r.kcds) = n /\ Len(calls) = n
        /\ \A j \in 1 .. n :
               /\ r.kcds[j].w = s.kcds[j].w
               /\ calls[j].member = j - 1
               /\ IF j - 1 = index
                  THEN /\ r.kcds[j].focus = "take"
                       /\ calls[j].call = "capture_take"
                       /\ calls[j].args = << <<0, 0>>, 0 >>
                  ELSE /\ r.kcds[j].focus = "remove"
                       /\ calls[j].call = "capture_remove"

\* C16: activate(i) with 0 <= i < number of members sets the selected index
\* to i, calls take with origin (0,0) and direction Down (0) exactly once on
\* member i and remove exactly once on every other member; activate(-1) sets
\* the selected index to -1 and calls remove on every member, take on none.
C16_Activate ==
    \A g \in 1 .. Len(submenus) :
        \A i \in -1 .. (Len(submenus[g].kcds) - 1) :
            ActivateAsClaimed(submenus[g], i)

\* The first draw has just activated member 1 of a group of two and
\* deactivated (activate(-1)) the other group.
C16_Witness ==
    /\ first_draw /\ lastPress = NoPress
    /\ Len(submenus) = 2
    /\ Len(submenus[1].kcds) = 2
    /\ submenus[1].selected = 1
    /\ submenus[1].kcds[1].focus = "remove" /\ submenus[1].kcds[2].focus = "take"
    /\ submenus[2].selected = -1
    /\ \A j \in 1 .. Len(submenus[2].kcds) : submenus[2].kcds[j].focus = "remove"

\* The outcome of select_key_capture_drawable(g, i) on the groups subs, stated
\* with indexes only: no hitbox is read.
SelectAsClaimed(subs, r, g, i) ==
    /\ r.selected_submenu = g
    /\ Len(r.submenus) = Len(subs)
    /\ \A k \in 1 .. Len(subs) :
           /\ Len(r.submenus[k].kcds) = Len(subs[k].kcds)
           /\ r.submenus[k].tl = subs[k].tl /\ r.submenus[k].br = subs[k].br
           /\ r.submenus[k].selected = IF k - 1 = g THEN i ELSE -1
           /\ \A j \in 1 .. Len(subs[k].kcds) :
                  /\ r.submenus[k].kcds[j].w = subs[k].kcds[j].w
                  /\ r.submenus[k].kcds[j].focus =
                         IF k - 1 = g /\ j - 1 = i THEN "take" ELSE "remove"

\* C17: select_key_capture_drawable(g, i), g an existing group and i a member
\* index of it, leaves selected_submenu = g, group g with selected index i and
\* take called on that member, every other group with selected index -1 and
\* remove called on all its members, whatever the hitboxes and whatever held
\* the focus before.
C17_SelectIsDeterministic ==
    \A g \in 0 .. (Len(submenus) - 1) :
        \A i \in 0 .. (Len(submenus[g + 1].kcds) - 1) :
            SelectAsClaimed(submenus,
                            select_key_capture_drawable(submenus, selected_submenu, g, i),
                            g, i)

\* The first draw has just selected member 0 of group 1 in a Menu of two groups.
C17_Witness ==
    /\ first_draw /\ lastPress = NoPress
    /\ Len(submenus) = 2
    /\ selected_submenu = 1
    /\ submenus[2].selected = 0 /\ submenus[2].kcds[1].focus = "take"
    /\ Len(submenus[1].kcds) = 2 /\ submenus[1].selected = -1
    /\ \A j \in 1 .. 2 : submenus[1].kcds[j].focus = "remove"

\* Every group of the Menu is deactivated (selected index -1).
EveryGroupDeactivated ==
    \A k \in 1 .. Len(submenus) : submenus[k].selected = -1

\* Some group stores a selected index that is neither -1 nor the index of one
\* of its members.
OutOfRangeSelectedStored ==
    \E k \in 1 .. Len(submenus) :
        submenus[k].selected \notin -1 .. (Len(submenus[k].kcds) - 1)

\* C18 (as claimed, checked under Spec): select_key_capture_drawable(g, i)
\* raises when g is not an existing group or i is not a member index of it,
\* so a first draw that returned normally has neither deactivated every group
\* nor stored an out-of-range selected index: a member holds the focus.
C18_SelectOutOfRangeRaises ==
    (first_draw /\ lastPress = NoPress /\ err = "none" /\ Len(submenus) > 0) =>
        /\ ~EveryGroupDeactivated
        /\ ~OutOfRangeSelectedStored
        /\ HasFocus

\* The members of the group s followed by the newly added widget w.
WithNewMember(s, r, w) ==
    /\ Len(r.kcds) = Len(s.kcds) + 1
    /\ \A j \in 1 .. Len(s.kcds) : r.kcds[j] = s.kcds[j]
    /\ r.kcds[Len(r.kcds)].w = w

\* What add_key_capture_drawable(w, g) yields on the groups subs, as claimed.
AddAsClaimed(subs, r, w, g) ==
    LET n == Len(subs) IN
    /\ g < n =>
           /\ r.err = "none"
           /\ Len(r.submenus) = n
           /\ WithNewMember(subs[g + 1], r.submenus[g + 1], w)
           /\ \A k \in 1 .. n : k # g + 1 => r.submenus[k] = subs[k]
    /\ g = n =>
           /\ r.err = "none"
           /\ Len(r.submenus) = n + 1
           /\ \A k \in 1 .. n : r.submenus[k] = subs[k]
           /\ Len(r.submenus[g + 1].kcds) = 1
           /\ r.submenus[g + 1].kcds[1].w = w
           /\ r.submenus[g + 1].capture_goto = "handle_submenu_goto"
    /\ g > n => r.err = "ValueError"

\* C19: add_key_capture_drawable(w, g) appends w to group g when g is an
\* existing group; creates exactly one new group at index g, holding w and
\* with the Menu's handle_submenu_goto as its goto, when g is the number of
\* groups; raises ValueError when g is greater than the number of groups.
C19_AddToGroup ==
    \A w \in Widgets \ HeldWidgets :
        \A g \in 0 .. (Len(submenus) + 1) :
            AddAsClaimed(submenus, add_key_capture_drawable(submenus, w, g), w, g)

\* An add to the existing group 0 was followed by an add to group 2 of a Menu
\* of one group, which raised.
C19_Witness ==
    /\ ~first_draw
    /\ err = "ValueError"
    /\ Len(submenus) = 2
    /\ Len(submenus[1].kcds) = 2
    /\ submenus[1].capture_goto = "handle_submenu_goto"

(***************************************************************************)
(* Claims about Submenu.add (checked under SpecAdd)                        *)
(***************************************************************************)
\* The smallest rectangle containing the hitboxes of the members of s.
Hull(s) ==
    LET H == {get_hitbox(s.kcds[j].w) : j \in 1 .. Len(s.kcds)}
        Min(S) == CHOOSE x \in S : \A y \in S : x <= y
        Max(S) == CHOOSE x \in S : \A y \in S : x >= y
    IN  Hitbox(<<Min({h.tl[1] : h \in H}), Min({h.tl[2] : h \in H})>>,
               <<Max({h.br[1] : h \in H}), Max({h.br[2] : h \in H})>>)

\* C20 (as claimed, checked under SpecAdd): after any sequence of add() calls
\* on a newly created Submenu, its bounding hitbox is the smallest rectangle
\* containing the hitboxes of its members and every member has the group's
\* handle_kcd_goto as its goto; an add to a group that has a box leaves the
\* top-left corner componentwise non-increasing and the bottom-right corner
\* componentwise non-decreasing.
C20_BoundingBoxIsHull ==
    Len(standalone.kcds) > 0 =>
        /\ Hitbox(standalone.tl, standalone.br) = Hull(standalone)
        /\ \A j \in 1 .. Len(standalone.kcds) :
               standalone.kcds[j].capture_goto = "handle_kcd_goto"
        /\ \A w \in AllWidgets \ StandaloneWidgets :
               LET r == submenu_add(standalone, w) IN
               /\ r.tl[1] <= standalone.tl[1] /\ r.tl[2] <= standalone.tl[2]
               /\ r.br[1] >= standalone.br[1] /\ r.br[2] >= standalone.br[2]

(***************************************************************************)
(* Claims about Submenu.clear and the selected index (checked under        *)
(* SpecGroup and SpecOps)                                                  *)
(***************************************************************************)
\* C21 (as claimed, checked under SpecGroup): the bounding hitbox of a group
\* that holds members is the union (smallest enclosing rectangle) of the
\* hitboxes of its present members only, also after clear() and re-adding:
\* the members dropped by clear() do not contribute.
C21_RebuildShrinks ==
    Len(standalone.kcds) > 0 =>
        Hitbox(standalone.tl, standalone.br) = Hull(standalone)

\* C22 (as claimed, checked under Spec): after Submenu.clear() the group has
\* no members and its selected index is -1 ('none'); after Menu.clear() the
\* Menu has no groups and selected_submenu is back to its initial value 0.
C22_ClearResetsSelection ==
    (first_draw /\ HasFocus) =>
        /\ \A g \in 1 .. Len(submenus) :
               LET r == submenu_clear(submenus[g]) IN
               Len(r.kcds) = 0 /\ r.selected = -1
        /\ \A reset \in BOOLEAN :
               LET r == menu_clear(submenus, selected_submenu, first_draw, reset) IN
               Len(r.submenus) = 0 /\ r.selected_submenu = 0

\* C23 (as claimed, checked under SpecAdd, where a newly created Submenu only
\* receives add() calls): the group's selected index is -1; activate(i) with
\* i >= 0 makes it i, and activate(-1) or a remove from the Menu makes it -1
\* again.
C23_StartsUnselected ==
    /\ standalone.selected = -1
    /\ \A i \in 0 .. (Len(standalone.kcds) - 1) :
           /\ activate(standalone, i).selected = i
           /\ activate(activate(standalone, i), -1).selected = -1
           /\ submenu_capture_remove(activate(standalone, i), 0).s.selected = -1

\* C24 (as claimed, checked under Spec): in every reachable state of a Menu at
\* most one group has a selected index >= 0, that group is the one indexed by
\* selected_submenu, and within every group at most one member has take as
\* its most recent take/remove call.
C24_AtMostOneFocus ==
    /\ \A g, h \in 1 .. Len(submenus) :
           (submenus[g].selected >= 0 /\ submenus[h].selected >= 0) => g = h
    /\ \A g \in 1 .. Len(submenus) :
           submenus[g].selected >= 0 => selected_submenu = g - 1
    /\ \A g \in 1 .. Len(submenus) :
           \A i, j \in 1 .. Len(submenus[g].kcds) :
               (submenus[g].kcds[i].focus = "take" /\ submenus[g].kcds[j].focus = "take")
                   => i = j

\* The cells on the four edges of the box tl..br.
Perimeter(tl, br) ==
    {<<y, x>> \in (tl[1] .. br[1]) \X (tl[2] .. br[2]) :
        y \in {tl[1], br[1]} \/ x \in {tl[2], br[2]}}

\* C25: a group with zero members (never populated, or emptied by clear())
\* answers distance_from(p, d) for every point p of the grid and every valid
\* direction d without raising, from its stored bounding box: the 'inside'
\* sentinel 4*MAX_DELTA^2 if p lies in the box, and otherwise the least
\* Drawable.distance from p to a cell of the box's edges.
C25_EmptyGroupDistance ==
    Len(standalone.kcds) = 0 =>
        \A p \in Grid, d \in Directions :
            LET r == submenu_distance_from(standalone, p, d)
                edge == Perimeter(standalone.tl, standalone.br)
            IN  /\ r # ValueError
                /\ IF is_inside(Hitbox(standalone.tl, standalone.br), p)
                   THEN r = 4 * MAX_DELTA * MAX_DELTA
                   ELSE /\ \E c \in edge : r = distance(p, c, d)
                        /\ \A c \in edge : r <= distance(p, c, d)

\* A group emptied by clear() that keeps the box (0,0)-(10,9) of its dropped
\* members, which contains points of the grid and leaves others outside.
C25_Witness ==
    /\ Len(standalone.kcds) = 0
    /\ standalone.tl = <<0, 0>> /\ standalone.br = <<10, 9>>
    /\ \E p, q \in Grid :
           /\ submenu_distance_from(standalone, p, 0) = 4 * MAX_DELTA * MAX_DELTA
           /\ ~is_inside(Hitbox(standalone.tl, standalone.br), q)

(***************************************************************************)
(* Claims about degenerate hitboxes (checked under SpecAdd)                *)
(***************************************************************************)
\* C28 (as claimed, checked under SpecAdd): also when a member's hitbox, or
\* the group's stored hitbox, is inverted, KeyCaptureDrawable.distance_from
\* and Submenu.distance_from return a score for every point of the grid and
\* every valid direction and do not raise.
C28_DegenerateHitboxesRank ==
    \A p \in Grid, d \in Directions :
        /\ \A j \in 1 .. Len(standalone.kcds) :
               kcd_distance_from(standalone.kcds[j].w, p, d) # ValueError
        /\ submenu_distance_from(standalone, p, d) # ValueError

(***************************************************************************)
(* Claims about the choice among candidates (checked under Spec)           *)
(***************************************************************************)
\* m (0-based) has the least key and every index before it a greater one.
LowestIndexOfLeast(keys, m) ==
    /\ m \in 0 .. (Len(keys) - 1)
    /\ \A j \in 1 .. Len(keys) : keys[m + 1] <= keys[j]
    /\ \A j \in 1 .. m : keys[j] > keys[m + 1]

\* The group s with what its selection and its focus history leave in it
\* erased: only the members' hitboxes and the group's box remain.
HitboxesOnly(s) ==
    [s EXCEPT !.selected = -1,
              !.kcds = [j \in 1 .. Len(s.kcds) |-> [s.kcds[j] EXCEPT !.focus = "none"]]]

\* handle_submenu_goto: the group it switches to, or the current one when it
\* returns False, is the lowest index among the groups of least distance_from,
\* a score computed from the groups' boxes alone.
C26_Menu(origin, d) ==
    LowestIndexOfLeast(
        [k \in 1 .. Len(submenus) |->
            submenu_distance_from(HitboxesOnly(submenus[k]), origin, d)],
        handle_submenu_goto(submenus, selected_submenu, origin, d).selected_submenu)

\* handle_kcd_goto: when the focus stays in the group (no handoff, or a
\* handoff that returned False) it is on the lowest index among the members
\* of least distance_from, a score computed from the hitboxes alone.
C26_Group(origin, d) ==
    Let(Pressed(Current, origin, d), LAMBDA r :
        r.handoff \in {"none", "False"} =>
            LowestIndexOfLeast(
                [j \in 1 .. Len(submenus[selected_submenu + 1].kcds) |->
                    kcd_distance_from(submenus[selected_submenu + 1].kcds[j].w, origin, d)],
                r.submenus[selected_submenu + 1].selected))

\* find_first (through _capture_take): lowest index among the members of least
\* first-entry distance, a score computed from the hitboxes alone.
C26_FindFirst(origin, d) ==
    \A g \in 1 .. Len(submenus) :
        Let(submenu_capture_take(submenus[g], origin, d), LAMBDA t :
            /\ t.err = "none"
            /\ LowestIndexOfLeast(
                   [j \in 1 .. Len(submenus[g].kcds) |->
                       distance_first_kcd(submenus[g].kcds[j].w, origin, d)],
                   t.s.selected))

FocusCapturing(m) ==
    /\ HasFocusIn(m.submenus, m.selected_submenu)
    /\ FocusedKcdIn(m.submenus, m.selected_submenu).w \in ui.capturing

\* C27 (as claimed): whenever the loop waits for a key, a 'q' stops the loop
\* (running becomes False) if neither the current Menu's focused widget nor
\* the focused widget of the Menu on top of the stack is capturing text, and
\* only if one of them is capturing is the 'q' delivered as an ordinary key.
C27_QuitUnlessCapturing ==
    (ui.running /\ first_draw) =>
        Let(ui_key_behaviour(ui, [submenus |-> submenus,
                                  selected_submenu |-> selected_submenu], "q"),
            LAMBDA u :
                LET capturing ==
                        \/ FocusCapturing([submenus |-> submenus,
                                           selected_submenu |-> selected_submenu])
                        \/ /\ Len(ui.menus_top) > 0
                           /\ FocusCapturing(ui.menus_top[Len(ui.menus_top)])
                IN  /\ ~capturing => (~u.running /\ u.last.to = "none")
                    /\ capturing => (u.running /\ u.last.to \in {"current", "top"}))

(***************************************************************************)
(* Claims about the escalation to the Menu (checked under SpecSet)         *)
(***************************************************************************)
\* The step is an arrow press that the focused group passed on to the Menu.
EscalatedStep ==
    /\ first_draw
    /\ HasFocus
    /\ lastPress'.kind = "press"
    /\ lastPress'.from = Focus
    /\ lastPress'.handoff \in {"True", "False", "raised"}

\* The scores of the members of group g (0-based) from origin in direction d.
MemberScores(g, origin, d) ==
    [i \in 1 .. Len(submenus[g + 1].kcds) |->
         kcd_distance_from(submenus[g + 1].kcds[i].w, origin, d)]

\* C29: on an arrow press that the group escalates, the current member has
\* been removed when the handoff is made (it is removed even when the handoff
\* raises); when the handoff returns False the group selects the member m of
\* least score and m takes the focus, the Menu's selection staying on the
\* group; when it returns True the group selects and takes nothing itself and
\* its selected index is -1 afterwards.
C29_EscalateThenFallback ==
    [][EscalatedStep =>
        LET g == selected_submenu
            cur == submenus[g + 1].selected
            after == submenus'[g + 1]
        IN  /\ lastPress'.handoff = "raised" => after.kcds[cur + 1].focus = "remove"
            /\ lastPress'.handoff = "False" =>
                   \E origin \in Origins :
                       LET m == py_min_index(MemberScores(g, origin, lastPress'.dir))
                       IN  /\ after.selected = m
                           /\ after.kcds[m + 1].focus = "take"
                           /\ cur # m => after.kcds[cur + 1].focus = "remove"
                           /\ selected_submenu' = g
            /\ lastPress'.handoff = "True" =>
                   /\ after.selected = -1
                   /\ after.kcds[cur + 1].focus = "remove"
                   /\ \A j \in 1 .. Len(after.kcds) : after.kcds[j].focus # "take"
                   /\ selected_submenu' # g]_vars

\* A fallback that moved the focus inside the group, and a handoff that the
\* Menu accepted.
C29_Witness ==
    /\ lastPress.kind = "press"
    /\ lastPress.handoff = "False"
    /\ lastPress.from[1] = selected_submenu
    /\ submenus[selected_submenu + 1].selected # lastPress.from[2]

(***************************************************************************)
(* Claims about the docstring tables (checked under SpecTable)             *)
(***************************************************************************)
\* The cells of the example that Drawable.distance puts before cell p, and
\* those it gives the same value.
RankedBefore(p) ==
    {c \in TableCells : distance_md(TABLE_MAX_DELTA, dO, c, dDir) < dRes}
RankedEqual(p) ==
    {c \in TableCells : c # p /\ distance_md(TABLE_MAX_DELTA, dO, c, dDir) = dRes}

\* C30 (as claimed): with MAX_DELTA = 6 and the origin of the direction's
\* table, the place of every cell of the 6x6 grid in the order of
\* Drawable.distance is the number the table gives it (no two cells share a
\* place; the origin comes last).
C30_TablesReproduced ==
    dPc = "ranked" =>
        /\ RankedEqual(dP) = {}
        /\ Cardinality(RankedBefore(dP)) + 1 = TableRank(dDir, dP)

(***************************************************************************)
(* Claims about ItemListSubmenu (checked under SpecList)                   *)
(***************************************************************************)
\* text_input_k, remove_button_k for the items k = from .. n - 1, in order.
RECURSIVE ItemMembers(_, _)
ItemMembers(from, n) ==
    IF from >= n THEN << >>
    ELSE <<TextInputOf(from), RemoveButtonOf(from)>> \o ItemMembers(from + 1, n)

\* C31 (as claimed): the members of an ItemListSubmenu are the Add button
\* (present iff max_items is 0 or fewer than max_items items are held)
\* followed by the text input and the remove button of each item in order.
C31_MembersAreAddThenItems ==
    il.kcds = (IF il.max_items = 0 \/ Len(il.items) < il.max_items
               THEN <<AddButton>> ELSE << >>)
              \o ItemMembers(0, Len(il.items))

(***************************************************************************)
(* Claims about the entry into a group (checked under SpecGroup)           *)
(***************************************************************************)
\* The order in which a group entered in direction d prefers corners: a
\* comes before b, or is the same corner.
EntryOrderLeq(a, b, d) ==
    IF d = 0 THEN a[1] < b[1] \/ (a[1] = b[1] /\ a[2] <= b[2])
    ELSE IF d = 1 THEN a[2] < b[2] \/ (a[2] = b[2] /\ a[1] <= b[1])
    ELSE IF d = 2 THEN a[1] > b[1] \/ (a[1] = b[1] /\ a[2] >= b[2])
    ELSE a[2] > b[2] \/ (a[2] = b[2] /\ a[1] <= b[1])

\* C32: find_first(p, d) does not depend on p: for every point it returns the
\* member whose entry corner comes first for the direction (top-most then
\* left-most top-left corner for Down, left-most then top-most top-left corner
\* for Right, bottom-most then right-most bottom-right corner for Up,
\* right-most then top-most top-right corner for Left).
C32_EntryIgnoresOrigin ==
    Len(standalone.kcds) > 0 =>
        \A d \in Directions :
            \E first \in 0 .. (Len(standalone.kcds) - 1) :
                /\ \A j \in 1 .. Len(standalone.kcds) :
                       EntryOrderLeq(EntryCorner(standalone.kcds[first + 1].w, d),
                                     EntryCorner(standalone.kcds[j].w, d), d)
                /\ \A p \in Grid \cup EntryPoints : find_first(standalone, p, d) = first

\* A group of three widgets that is not entered by its first member from below
\* (Up), with points on either side of every member.
C32_Witness ==
    /\ Len(standalone.kcds) = 3
    /\ find_first(standalone, <<0, 0>>, 2) # 0
    /\ find_first(standalone, <<0, 0>>, 0) # find_first(standalone, <<0, 0>>, 2)

(***************************************************************************)
(* Claims about the wrap-around of Up and Down (checked under Spec)        *)
(***************************************************************************)
\* The box of group g (1-based) of the Menu does not contain the point.
BoxAwayFrom(g, origin) ==
    ~is_inside(Hitbox(submenus[g].tl, submenus[g].br), origin)

\* Some widget other than the focused one can receive the focus: its hitbox
\* does not contain the origin, nor does its group's box when it is in
\* another group.
SomewhereToGo(origin) ==
    \E g \in 1 .. Len(submenus) :
        \E j \in 1 .. Len(submenus[g].kcds) :
            /\ <<g - 1, j - 1>> # Focus
            /\ ~is_inside(get_hitbox(submenus[g].kcds[j].w), origin)
            /\ g # selected_submenu + 1 => BoxAwayFrom(g, origin)

\* C33: a Down or Up press always moves the focus when there is somewhere to
\* go, wherever the other widgets lie; and the Menu's handle_submenu_goto does
\* not return False for Down or Up while the box of some other group does not
\* contain the origin.
C33_UpDownAlwaysMove ==
    (first_draw /\ HasFocus) =>
        \A origin \in Origins, d \in {0, 2} :
            /\ SomewhereToGo(origin) =>
                   Let(Pressed(Current, origin, d), LAMBDA r :
                       /\ r.err = "none"
                       /\ HasFocusOf(r)
                       /\ FocusedWidget(r) # FocusedKcd.w)
            /\ (\E g \in 1 .. Len(submenus) :
                    g # selected_submenu + 1 /\ BoxAwayFrom(g, origin)) =>
                   handle_submenu_goto(submenus, selected_submenu, origin, d).ret = "True"

\* Up has been pressed on the top-most widget of the Menu and the focus went
\* to a widget below it, in another group.
C33_Witness ==
    /\ lastPress.kind = "press"
    /\ lastPress.dir = 2
    /\ lastPress.handoff = "True"
    /\ HasFocus
    /\ \A g \in 1 .. Len(submenus) :
           submenus[g].tl[1] >=
               get_hitbox(submenus[lastPress.from[1] + 1].kcds[lastPress.from[2] + 1].w).tl[1]
    /\ get_hitbox(FocusedKcd.w).tl[1] >
           get_hitbox(submenus[lastPress.from[1] + 1].kcds[lastPress.from[2] + 1].w).br[1]

(***************************************************************************)
(* Claims about the column below the origin (checked under Spec)           *)
(***************************************************************************)
\* Some member of the group s whose hitbox does not contain origin has a
\* corner in the origin's column, strictly below the origin.
MemberDirectlyBelow(s, origin) ==
    \E j \in 1 .. Len(s.kcds) :
        /\ ~is_inside(get_hitbox(s.kcds[j].w), origin)
        /\ \E c \in CornersOf(s.kcds[j].w) : c[2] = origin[2] /\ c[1] > origin[1]

\* C34 (as claimed): on a Right press, and in the mirrored way on a Left
\* press, when no member of the focused group has a corner strictly on the
\* travel side of the origin but some member has a corner in the origin's
\* column strictly below it, the focus moves to a member of the same group and
\* the Menu is not called.
C34_DirectlyBelowIsLocal ==
    (first_draw /\ HasFocus) =>
        \A origin \in Origins, d \in {1, 3} :
            (/\ ~MemberAhead(submenus[selected_submenu + 1], origin, d)
             /\ MemberDirectlyBelow(submenus[selected_submenu + 1], origin))
            => Let(Pressed(Current, origin, d), LAMBDA r :
                   /\ r.err = "none"
                   /\ r.handoff = "none"
                   /\ r.selected_submenu = selected_submenu
                   /\ HasFocusOf(r)
                   /\ FocusedWidget(r) # FocusedKcd.w)

(***************************************************************************)
(* Claims about a handoff the Menu rejects (checked under SpecCalls)       *)
(***************************************************************************)
\* C35: whenever Menu.handle_submenu_goto returns False it has changed
\* nothing: selected_submenu, every group's selected index and members are as
\* before and no take or remove has reached a group or a widget; so after a
\* press whose handoff was rejected the sibling groups are as they were.
C35_RejectedHandoffChangesNothing ==
    (first_draw /\ HasFocus) =>
        \A origin \in Origins, d \in Directions :
            /\ Let(handle_submenu_goto(submenus, selected_submenu, origin, d), LAMBDA r :
                   r.ret = "False" =>
                       /\ r.err = "none"
                       /\ r.submenus = submenus
                       /\ r.selected_submenu = selected_submenu)
            /\ Let(Pressed(Current, origin, d), LAMBDA r :
                   r.handoff = "False" =>
                       /\ r.selected_submenu = selected_submenu
                       /\ \A g \in 1 .. Len(submenus) :
                              g # selected_submenu + 1 => r.submenus[g] = submenus[g])

\* The Menu has rejected a handoff although it holds a sibling group.
C35_Witness ==
    /\ lastPress.kind = "press"
    /\ lastPress.handoff = "False"
    /\ Len(submenus) = 2
    /\ selected_submenu = lastPress.from[1]
    /\ submenus[2 - selected_submenu].selected = -1

(***************************************************************************)
(* Claims about the key dispatch (checked under Spec)                      *)
(***************************************************************************)
\* C37: a widget that an arrow key reaches through Menu.key_behaviour calls
\* its goto in a group whose selected index is not -1: handle_kcd_goto does
\* not raise "No drawable selected" (ValueError), whatever the adds, the
\* default selection and the presses before.
C37_NoGotoWithoutSelection ==
    first_draw =>
        \A rc \in key_receivers(submenus, selected_submenu), d \in Directions :
            /\ submenus[rc[1] + 1].selected # -1
            /\ handle_kcd_goto(submenus, selected_submenu, rc[1],
                               button_origin(submenus[rc[1] + 1].kcds[rc[2] + 1].w, d),
                               d).err # "ValueError"

\* After a press that took the focus to another group, a widget receives the
\* keys while the group the press came from has the selected index -1.
C37_Witness ==
    /\ lastPress.kind = "press"
    /\ lastPress.handoff = "True"
    /\ key_receivers(submenus, selected_submenu) # {}
    /\ submenus[lastPress.from[1] + 1].selected = -1

(***************************************************************************)
(* Claims about a failed add (checked under Spec)                          *)
(***************************************************************************)
\* C36 (as claimed): when Menu.add_key_capture_drawable raises ValueError for
\* a group index out of range, the Menu's groups (their number and their
\* members) are the same as before the call.
C36_FailedAddChangesNothing ==
    ~first_draw =>
        \A w \in Widgets \ HeldWidgets, g \in 0 .. MaxSubmenus :
            Let(add_key_capture_drawable(submenus, w, g), LAMBDA r :
                r.err = "ValueError" => r.submenus = submenus)

(***************************************************************************)
(* The main loop and a background thread in Menu.draw                      *)
(*                                                                         *)
(* UserInterface.ui_loop draws, reads a key and handles it, in turn.  A    *)
(* CountDownObject or AnimatedText thread calls UserInterface.mid_update,  *)
(* which draws the same Menu.  Menu.draw reads _first_draw and then calls  *)
(* _do_first_draw; the main loop holds no lock (the threads hold their own *)
(* object's lock only), so the other thread may run between the two.       *)
(***************************************************************************)
\* Menu._do_first_draw, as run by either thread.
DoFirstDraw ==
    /\ first_draw' = TRUE
    /\ \E r \in {select_key_capture_drawable(submenus, selected_submenu,
                                            th.default[1], th.default[2])} :
           /\ submenus' = r.submenus
           /\ selected_submenu' = r.selected_submenu
    /\ err' = "none"
    /\ lastPress' = NoPress

\* The widgets are added before the loop.
RaceAddKcd(w, g) ==
    /\ th.main = "setup"
    /\ AddKcd(w, g)

\* UserInterface.ui_loop is entered; its turn starts with draw.
RaceLoopStart ==
    /\ th.main = "setup"
    /\ th' = [th EXCEPT !.main = "draw"]
    /\ UNCHANGED <<menuVars, distVars, aloneVars, uiVars, il, anim>>

\* Main loop, Menu.draw: if not self._first_draw
MainDrawTest ==
    /\ th.main = "draw"
    /\ th' = [th EXCEPT !.main = IF first_draw THEN "key" ELSE "first"]
    /\ UNCHANGED <<menuVars, distVars, aloneVars, uiVars, il, anim>>

\* Main loop, Menu.draw: self._do_first_draw()
MainFirstDraw ==
    /\ th.main = "first"
    /\ DoFirstDraw
    /\ th' = [th EXCEPT !.main = "key", !.applied = @ + 1,
                        !.late = @ \/ th.keyed]
    /\ UNCHANGED <<distVars, aloneVars, uiVars, il, anim>>

\* Main loop, getch and key_behaviour: an arrow key reaches the focused widget.
MainKey(origin, direction) ==
    /\ th.main = "key"
    /\ HasFocus
    /\ origin \in Origins
    /\ \E r \in {handle_kcd_goto(submenus, selected_submenu, selected_submenu,
                                origin, direction)} :
           /\ submenus' = r.submenus
           /\ selected_submenu' = r.selected_submenu
           /\ err' = r.err
           /\ lastPress' = [kind |-> "press", dir |-> direction,
                            from |-> Focus, handoff |-> r.handoff]
    /\ th' = [th EXCEPT !.main = "draw", !.keyed = TRUE]
    /\ UNCHANGED first_draw
    /\ UNCHANGED <<distVars, aloneVars, uiVars, il, anim>>

\* Main loop, getch and key_behaviour: no key, or one that nothing handles.
MainNoKey ==
    /\ th.main = "key"
    /\ th' = [th EXCEPT !.main = "draw"]
    /\ UNCHANGED <<menuVars, distVars, aloneVars, uiVars, il, anim>>

\* Background thread (started from the running loop), mid_update ->
\* Menu.draw: if not self._first_draw
BgDrawTest ==
    /\ th.main # "setup"
    /\ th.bg = "idle"
    /\ th' = [th EXCEPT !.bg = IF first_draw THEN "idle" ELSE "first"]
    /\ UNCHANGED <<menuVars, distVars, aloneVars, uiVars, il, anim>>

\* Background thread, mid_update -> Menu.draw: self._do_first_draw()
BgFirstDraw ==
    /\ th.bg = "first"
    /\ DoFirstDraw
    /\ th' = [th EXCEPT !.bg = "idle", !.applied = @ + 1,
                        !.late = @ \/ th.keyed]
    /\ UNCHANGED <<distVars, aloneVars, uiVars, il, anim>>

InitRace ==
    /\ MenuIdle
    /\ DistIdle
    /\ AloneIdle
    /\ UiIdle
    /\ IlIdle
    /\ AnimIdle
    /\ \E default_selected \in DefaultChoices : th = NewThreads(default_selected)

NextRace ==
    \/ \E w \in Widgets, g \in 0 .. MaxSubmenus : RaceAddKcd(w, g)
    \/ RaceLoopStart
    \/ MainDrawTest
    \/ MainFirstDraw
    \/ \E origin \in Origins, direction \in Directions : MainKey(origin, direction)
    \/ MainNoKey
    \/ BgDrawTest
    \/ BgFirstDraw

SpecRace == InitRace /\ [][NextRace]_vars

\* C38 (as claimed): in every interleaving of the main loop with a background
\* thread that draws the Menu, the default selection of the first draw is
\* applied at most once and never after a key press was delivered to the Menu.
C38_FirstDrawOnceBeforeKeys ==
    /\ th.applied <= 1
    /\ ~th.late

(***************************************************************************)
(* AnimatedText: start() and stop() called by the main thread, and the     *)
(* threads start() creates, each running __run.  The threads read _running *)
(* at the while test only; start() takes no lock.                          *)
(***************************************************************************)
AnimThreads == 1 .. MaxStarts

Created == {t \in AnimThreads : anim.pc[t] # "none"}

\* AnimatedText.start(rate)
AnimStart ==
    /\ Cardinality(Created) < MaxStarts
    /\ anim' = IF anim.running = FALSE
                THEN [anim EXCEPT !.running = TRUE,
                                  !.hidden = FALSE,
                                  !.pc[Cardinality(Created) + 1] = "check"]
                ELSE anim
    /\ UNCHANGED <<menuVars, distVars, aloneVars, uiVars, il, th>>

\* AnimatedText.stop(hide)
AnimStop(hide) ==
    /\ anim' = [anim EXCEPT !.running = FALSE,
                            !.hidden = hide,
                            !.stopped = [t \in AnimThreads |->
                                @[t] \/ anim.pc[t] \in {"check", "body"}]]
    /\ UNCHANGED <<menuVars, distVars, aloneVars, uiVars, il, th>>

\* Thread t in __run: while self._running
AnimCheck(t) ==
    /\ anim.pc[t] = "check"
    /\ anim' = [anim EXCEPT !.pc[t] = IF anim.running THEN "body" ELSE "done"]
    /\ UNCHANGED <<menuVars, distVars, aloneVars, uiVars, il, th>>

\* Thread t in __run: draw_frame, mid_update, advance_frame, sleep(rate)
AnimBody(t) ==
    /\ anim.pc[t] = "body"
    /\ anim' = [anim EXCEPT !.pc[t] = "check",
                            !.current_frame = (@ + 1) % NumFrames]
    /\ UNCHANGED <<menuVars, distVars, aloneVars, uiVars, il, th>>

InitAnim ==
    /\ MenuIdle
    /\ DistIdle
    /\ AloneIdle
    /\ UiIdle
    /\ IlIdle
    /\ ThIdle
    /\ AnimIdle

NextAnim ==
    \/ AnimStart
    \/ \E hide \in BOOLEAN : AnimStop(hide)
    \/ \E t \in AnimThreads : AnimCheck(t)
    \/ \E t \in AnimThreads : AnimBody(t)

SpecAnim == InitAnim /\ [][NextAnim]_vars

\* The scheduler runs every thread again and again: a thread that can take
\* its next step (the while test, the loop body with its sleep) takes it.
SpecAnimFair ==
    /\ SpecAnim
    /\ \A t \in AnimThreads : WF_vars(AnimCheck(t)) /\ WF_vars(AnimBody(t))

InLoop == {t \in AnimThreads : anim.pc[t] = "body"}

\* C39 (as claimed): whatever start() and stop() calls the main thread makes,
\* at most one thread is inside the frame loop of __run at any time, and a
\* thread that was in __run when stop() was called eventually leaves the loop.
C39_OneAnimationThread ==
    /\ [](Cardinality(InLoop) <= 1)
    /\ \A t \in AnimThreads : anim.stopped[t] ~> (anim.pc[t] = "done")
====
